---- MODULE Spec2Model ----
(***************************************************************************)
(* Document-analysis core of llm-docx: the chunker, the hierarchy          *)
(* extractor, the vector store wrapper and the DocSyncManager that keeps   *)
(* the vector store in step with the document text.                        *)
(*                                                                         *)
(* Texts are sequences of one-character strings.  Offsets are 0-based and  *)
(* half-open, as in the TypeScript source; sequences are 1-based, so the   *)
(* character at offset i of s is s[i + 1].                                 *)
(***************************************************************************)
EXTENDS Integers, Sequences, FiniteSets, TLC

\* ------------------------------------------------------------------------
\* String primitives (JavaScript String methods used by the services)
\* ------------------------------------------------------------------------

SetMin(S) == CHOOSE x \in S : \A y \in S : x <= y
SetMax(S) == CHOOSE x \in S : \A y \in S : x >= y
MinOf(a, b) == IF a <= b THEN a ELSE b
MaxOf(a, b) == IF a >= b THEN a ELSE b

\* \s of a JavaScript regular expression, over the characters the documents use
IsWs(c) == c \in {" ", "\n", "\t"}

\* s.slice(a, b) for 0 <= a
Slice(s, a, b) ==
    LET lo == MinOf(MaxOf(a, 0), Len(s))
        hi == MaxOf(lo, MinOf(b, Len(s)))
    IN  SubSeq(s, lo + 1, hi)

\* s.slice(-n): the last n characters
SliceTail(s, n) == Slice(s, MaxOf(Len(s) - n, 0), Len(s))

\* s.trim()
Trim(s) ==
    LET keep == {i \in 1..Len(s) : ~IsWs(s[i])}
    IN  IF keep = {} THEN <<>> ELSE SubSeq(s, SetMin(keep), SetMax(keep))

\* s.indexOf(needle, from): the first offset >= from where needle occurs, else -1
IndexOf(s, needle, from) ==
    LET at == {i \in MaxOf(from, 0)..(Len(s) - Len(needle)) :
                   SubSeq(s, i + 1, i + Len(needle)) = needle}
    IN  IF at = {} THEN -1 ELSE SetMin(at)

\* the end of the maximal whitespace run that starts at offset q
WsRunEnd(s, q) ==
    LET stop == {k \in q..Len(s) : k = Len(s) \/ ~IsWs(s[k + 1])}
    IN  SetMin(stop)

\* PARAGRAPH_SPLIT = /\n\s*\n/ matched at offset q: the end of the match, or -1.
\* \s* is greedy, so the match runs to the last newline of the whitespace run.
ParaMatchEnd(s, q) ==
    IF q >= Len(s) \/ s[q + 1] # "\n" THEN -1
    ELSE LET nl == {k \in (q + 1)..(WsRunEnd(s, q) - 1) : s[k + 1] = "\n"}
         IN  IF nl = {} THEN -1 ELSE SetMax(nl) + 1

\* SENTENCE_SPLIT = /(?<=[.!?])\s+/ matched at offset q: the end of the match, or -1
SentMatchEnd(s, q) ==
    IF q < 1 \/ q >= Len(s) THEN -1
    ELSE IF IsWs(s[q + 1]) /\ s[q] \in {".", "!", "?"} THEN WsRunEnd(s, q) ELSE -1

\* /\s+/ matched at offset q
WsMatchEnd(s, q) ==
    IF q >= Len(s) THEN -1
    ELSE IF IsWs(s[q + 1]) THEN WsRunEnd(s, q) ELSE -1

\* one literal character c matched at offset q
CharMatchEnd(s, q, c) ==
    IF q < Len(s) /\ s[q + 1] = c THEN q + 1 ELSE -1

\* String.prototype.split(separator): p is the start of the current piece,
\* q the offset tried next; kind selects the separator.
MatchEnd(kind, s, q) ==
    CASE kind = "para" -> ParaMatchEnd(s, q)
      [] kind = "sent" -> SentMatchEnd(s, q)
      [] kind = "ws"   -> WsMatchEnd(s, q)
      [] kind = "nl"   -> CharMatchEnd(s, q, "\n")
      [] kind = "sp"   -> CharMatchEnd(s, q, " ")

RECURSIVE SplitFrom(_, _, _, _)
SplitAt(kind, s, p, q, e) ==
    IF e = -1 \/ e = p THEN SplitFrom(kind, s, p, q + 1)
    ELSE << Slice(s, p, q) >> \o SplitFrom(kind, s, e, e)

SplitFrom(kind, s, p, q) ==
    IF q >= Len(s) THEN << Slice(s, p, Len(s)) >>
    ELSE SplitAt(kind, s, p, q, MatchEnd(kind, s, q))

Split(kind, s) == SplitFrom(kind, s, 0, 0)

\* xs.filter(p => p.trim().length > 0)
RECURSIVE NonBlank(_)
NonBlank(xs) ==
    IF xs = <<>> THEN <<>>
    ELSE (IF Trim(Head(xs)) # <<>> THEN << Head(xs) >> ELSE <<>>) \o NonBlank(Tail(xs))

\* xs.join(sep)
RECURSIVE Join(_, _)
Join(xs, sep) ==
    IF xs = <<>> THEN <<>>
    ELSE IF Len(xs) = 1 THEN xs[1]
    ELSE xs[1] \o sep \o Join(Tail(xs), sep)

\* SHA-256 hex digest: collision-free on the texts of the model, and never
\* equal to the text it digests
sha256(text) == << "sha256", text >>

\* hashDocument
hashDocument(text) == sha256(text)

\* a document hash that tells the chunking options apart
DocHashWithOptions(text, options) ==
    sha256(Append(text, IF options.maxChunkSize > 4 THEN "L" ELSE "S"))

\* "const docHash = await hashDocument(docText)": the options take no part
DocHashOf(text, options) == hashDocument(text)

\* ------------------------------------------------------------------------
\* Chunker
\* ------------------------------------------------------------------------

DefaultMaxChunkSize == 1000
DefaultOverlap == 200

\* the sentence loop of splitIntoSegments: pack the sentences of one oversized
\* paragraph into segments of at most maxSize characters
RECURSIVE PackSentences(_, _, _)
PackSentences(sentences, current, maxSize) ==
    IF sentences = <<>>
    THEN (IF Len(current) > 0 THEN << current >> ELSE <<>>)
    ELSE LET trimmed == Trim(Head(sentences))
         IN  IF Len(current) + Len(trimmed) + 1 > maxSize /\ Len(current) > 0
             THEN << current >> \o PackSentences(Tail(sentences), trimmed, maxSize)
             ELSE PackSentences(Tail(sentences),
                                IF Len(current) > 0 THEN current \o << " " >> \o trimmed
                                                    ELSE trimmed,
                                maxSize)

\* steps 1 and 2 of splitIntoSegments: a paragraph that fits is one trimmed
\* segment, a larger one is broken at sentence boundaries
RECURSIVE RawSegments(_, _)
RawSegments(paragraphs, maxSize) ==
    IF paragraphs = <<>> THEN <<>>
    ELSE LET para == Head(paragraphs)
         IN  (IF Len(para) <= maxSize
              THEN << Trim(para) >>
              ELSE PackSentences(NonBlank(Split("sent", para)), <<>>, maxSize))
             \o RawSegments(Tail(paragraphs), maxSize)

\* step 3 of splitIntoSegments: merge small consecutive segments
RECURSIVE MergeSegments(_, _, _)
MergeSegments(raw, buffer, maxSize) ==
    IF raw = <<>>
    THEN (IF Len(buffer) > 0 THEN << buffer >> ELSE <<>>)
    ELSE LET seg == Head(raw)
         IN  IF Len(buffer) + Len(seg) + 2 > maxSize /\ Len(buffer) > 0
             THEN << buffer >> \o MergeSegments(Tail(raw), seg, maxSize)
             ELSE MergeSegments(Tail(raw),
                                IF Len(buffer) > 0 THEN buffer \o << "\n", "\n" >> \o seg
                                                   ELSE seg,
                                maxSize)

splitIntoSegments(text, maxSize) ==
    MergeSegments(RawSegments(NonBlank(Split("para", text)), maxSize), <<>>, maxSize)

\* applyOverlap: every segment after the first gets the tail of the previous
\* segment, cut at its first space, as a prefix
applyOverlap(segments, overlap) ==
    IF overlap <= 0 \/ Len(segments) <= 1 THEN segments
    ELSE [i \in 1..Len(segments) |->
            IF i = 1 THEN segments[1]
            ELSE LET overlapText == SliceTail(segments[i - 1], overlap)
                     firstSpace == IndexOf(overlapText, << " " >>, 0)
                     cleanOverlap == IF firstSpace > 0
                                     THEN Slice(overlapText, firstSpace + 1, Len(overlapText))
                                     ELSE overlapText
                 IN  cleanOverlap \o << " " >> \o segments[i]]

\* the loop of chunkText: locate each canonical segment from the search cursor
RECURSIVE LocateChunks(_, _, _, _, _)
LocateChunks(text, segments, overlapped, i, searchFrom) ==
    IF i > Len(overlapped) THEN <<>>
    ELSE LET canonical == segments[i]
             start == IndexOf(text, canonical, searchFrom)
             end == IF start >= 0 THEN start + Len(canonical) ELSE searchFrom
         IN  << [index |-> i - 1,
                 text  |-> overlapped[i],
                 start |-> MaxOf(start, 0),
                 end   |-> end,
                 hash  |-> sha256(overlapped[i])] >>
             \o LocateChunks(text, segments, overlapped, i + 1,
                             IF start >= 0 THEN start + 1 ELSE searchFrom)

\* chunkText(text, {maxChunkSize, overlap})
ChunksOfSegments(text, segments, overlap) ==
    LocateChunks(text, segments, applyOverlap(segments, overlap), 1, 0)

chunkText(text, options) ==
    ChunksOfSegments(text, splitIntoSegments(text, options.maxChunkSize), options.overlap)


\* ------------------------------------------------------------------------
\* Hierarchy extractor
\* ------------------------------------------------------------------------

LowerLetters == << "a", "b", "c", "d", "e", "f", "g", "h", "i", "j", "k", "l", "m",
                   "n", "o", "p", "q", "r", "s", "t", "u", "v", "w", "x", "y", "z" >>
UpperLetters == << "A", "B", "C", "D", "E", "F", "G", "H", "I", "J", "K", "L", "M",
                   "N", "O", "P", "Q", "R", "S", "T", "U", "V", "W", "X", "Y", "Z" >>
Digits == {"0", "1", "2", "3", "4", "5", "6", "7", "8", "9"}

IsUpperLetter(c) == \E i \in 1..26 : UpperLetters[i] = c
UpperChar(c) ==
    IF \E i \in 1..26 : LowerLetters[i] = c
    THEN UpperLetters[CHOOSE i \in 1..26 : LowerLetters[i] = c] ELSE c
LowerChar(c) ==
    IF \E i \in 1..26 : UpperLetters[i] = c
    THEN LowerLetters[CHOOSE i \in 1..26 : UpperLetters[i] = c] ELSE c
toUpperCase(s) == [i \in 1..Len(s) |-> UpperChar(s[i])]
toLowerCase(s) == [i \in 1..Len(s) |-> LowerChar(s[i])]

\* titleCase: lower-case, then capitalise the first letter of every word
titleCase(str) ==
    LET words == Split("sp", toLowerCase(str))
        cap(w) == IF w = <<>> THEN w ELSE << UpperChar(w[1]) >> \o Tail(w)
    IN  Join([i \in 1..Len(words) |-> cap(words[i])], << " " >>)

\* /^(#{1,6})\s+(.+)$/ on a trimmed line: the number of #, or 0 for no match
MdLevel(trimmed) ==
    LET stop == {k \in 0..Len(trimmed) : k = Len(trimmed) \/ trimmed[k + 1] # "#"}
        k == SetMin(stop)
    IN  IF k >= 1 /\ k <= 6 /\ k < Len(trimmed) /\ IsWs(trimmed[k + 1]) THEN k ELSE 0

\* the ALL-CAPS recogniser
IsAllCaps(trimmed) ==
    /\ Len(trimmed) >= 5
    /\ trimmed = toUpperCase(trimmed)
    /\ IsUpperLetter(trimmed[1])
    /\ Len(Split("ws", trimmed)) >= 3
    /\ trimmed[1] \notin {"#", "-", "*", ">"}

\* /^(\d+(?:\.\d+)*)[.)]\s+(.+)$/ on a trimmed line: the offset of the
\* character after the number (the "." or ")" ), or 0 for no match.  The
\* separator must be followed by whitespace, so it is the character before
\* the first whitespace of the line.
NumSepAt(trimmed) ==
    LET ws == {f \in 1..Len(trimmed) : IsWs(trimmed[f])}
        f == IF ws = {} THEN 0 ELSE SetMin(ws)
        num == SubSeq(trimmed, 1, f - 2)
        wellFormed ==
            /\ Len(num) >= 1
            /\ \A i \in 1..Len(num) : num[i] \in Digits \/ num[i] = "."
            /\ num[1] # "." /\ num[Len(num)] # "."
            /\ \A i \in 1..(Len(num) - 1) : ~(num[i] = "." /\ num[i + 1] = ".")
    IN  IF f >= 3 /\ trimmed[f - 1] \in {".", ")"} /\ wellFormed THEN f - 2 ELSE 0

\* the loop of extractHeadings over the lines of the text
RECURSIVE HeadingsOfLines(_, _)
HeadingsOfLines(lines, offset) ==
    IF lines = <<>> THEN <<>>
    ELSE LET line == Head(lines)
             trimmed == Trim(line)
             md == MdLevel(trimmed)
             numEnd == NumSepAt(trimmed)
             num == SubSeq(trimmed, 1, numEnd)
             depth == Cardinality({i \in 1..Len(num) : num[i] = "."}) + 1
             found ==
                 IF md > 0
                 THEN << [level |-> md,
                          title |-> Trim(Slice(trimmed, md, Len(trimmed))),
                          offset |-> offset] >>
                 ELSE IF IsAllCaps(trimmed)
                 THEN << [level |-> 1, title |-> titleCase(trimmed), offset |-> offset] >>
                 ELSE IF numEnd > 0
                 THEN << [level |-> MinOf(depth, 6),
                          title |-> Trim(Slice(trimmed, numEnd + 1, Len(trimmed))),
                          offset |-> offset] >>
                 ELSE <<>>
         IN  found \o HeadingsOfLines(Tail(lines), offset + Len(line) + 1)

extractHeadings(text) == HeadingsOfLines(Split("nl", text), 0)

\* every heading ends where the next heading starts, whatever its level
WithEndsAtNext(flatHeadings, docLength) ==
    [i \in 1..Len(flatHeadings) |->
        [level |-> flatHeadings[i].level, title |-> flatHeadings[i].title,
         offset |-> flatHeadings[i].offset,
         endOffset |-> IF i < Len(flatHeadings) THEN flatHeadings[i + 1].offset
                       ELSE docLength]]

\* the endOffset pass of buildHierarchyTree
WithEnds(flatHeadings, docLength) ==
    [i \in 1..Len(flatHeadings) |->
        LET h == flatHeadings[i]
            next == {j \in (i + 1)..Len(flatHeadings) : flatHeadings[j].level <= h.level}
        IN  [level |-> h.level, title |-> h.title, offset |-> h.offset,
             endOffset |-> IF next = {} THEN docLength
                           ELSE flatHeadings[SetMin(next)].offset]]

\* nestFrom of buildHierarchyTree; i, start and end are 0-based as in the code
RECURSIVE nestFrom(_, _, _, _)
nestFrom(items, start, end, parentLevel) ==
    IF start >= end THEN <<>>
    ELSE LET item == items[start + 1]
         IN  IF item.level <= parentLevel /\ parentLevel > 0 THEN <<>>
             ELSE LET stop == {c \in (start + 1)..end :
                                  c = end \/ items[c + 1].level <= item.level}
                      childEnd == SetMin(stop)
                      node == [level |-> item.level,
                               title |-> item.title,
                               startOffset |-> item.offset,
                               endOffset |-> item.endOffset,
                               children |-> IF childEnd > start + 1
                                            THEN nestFrom(items, start + 1, childEnd, item.level)
                                            ELSE <<>>]
                  IN  << node >> \o nestFrom(items, childEnd, end, parentLevel)

buildHierarchyTree(flatHeadings, docLength) ==
    IF Len(flatHeadings) = 0 THEN <<>>
    ELSE nestFrom(WithEnds(flatHeadings, docLength), 0, Len(flatHeadings), 0)

\* findHeadingPath / buildContextPrefix
RECURSIVE findHeadingPath(_, _)
findHeadingPath(offset, headings) ==
    LET hit == {i \in 1..Len(headings) :
                   offset >= headings[i].startOffset /\ offset < headings[i].endOffset}
    IN  IF hit = {} THEN <<>>
        ELSE LET h == headings[SetMin(hit)]
             IN  << h >> \o findHeadingPath(offset, h.children)

buildContextPrefix(offset, headings) ==
    LET path == findHeadingPath(offset, headings)
    IN  Join([i \in 1..Len(path) |-> path[i].title], << " ", ">", " " >>)

\* splitParagraphs: the paragraphs with their offsets, found by indexOf from
\* a cursor that advances by part.length + 1
RECURSIVE ParagraphsOf(_, _, _)
ParagraphsOf(text, parts, offset) ==
    IF parts = <<>> THEN <<>>
    ELSE LET part == Head(parts)
             trimmed == Trim(part)
             start == IndexOf(text, trimmed, offset)
         IN  (IF Len(trimmed) > 0
              THEN << [text |-> trimmed, start |-> start, end |-> start + Len(trimmed)] >>
              ELSE <<>>)
             \o ParagraphsOf(text, Tail(parts), offset + Len(part) + 1)

splitParagraphs(text) == ParagraphsOf(text, Split("para", text), 0)


\* ------------------------------------------------------------------------
\* Embedder (the model behind it is external: here a fixed, deterministic
\* model that maps a text to a unit vector chosen by its first letter)
\* ------------------------------------------------------------------------

EmbedDim == 3

TopicOf(text) ==
    IF text = <<>> THEN 1
    ELSE LET c == LowerChar(text[1])
             at == {i \in 1..26 : LowerLetters[i] = c}
         IN  IF at = {} THEN 1 ELSE ((CHOOSE i \in at : TRUE) % EmbedDim) + 1

\* Embedder.embed: an L2-normalised vector
EmbedVec(text) == [i \in 1..EmbedDim |-> IF i = TopicOf(text) THEN 1 ELSE 0]

\* Embedder.embedBatch: vectors[i] belongs to texts[i]
EmbedBatchVecs(texts) == [i \in 1..Len(texts) |-> EmbedVec(texts[i])]

RECURSIVE SumSeq(_)
SumSeq(xs) == IF xs = <<>> THEN 0 ELSE Head(xs) + SumSeq(Tail(xs))

\* the square root of a perfect square (the magnitudes of the model's vectors)
Sqrt(n) == CHOOSE r \in 0..n : r * r = n

\* cosineSimilarity, with its zero-magnitude guard
cosineSimilarity(a, b) ==
    LET dot == SumSeq([i \in 1..Len(a) |-> a[i] * b[i]])
        magA == SumSeq([i \in 1..Len(a) |-> a[i] * a[i]])
        magB == SumSeq([i \in 1..Len(a) |-> b[i] * b[i]])
        denom == Sqrt(magA) * Sqrt(magB)
    IN  IF denom = 0 THEN 0 ELSE dot \div denom

\* similarities[i] < mean - similarityThreshold * std, in exact arithmetic:
\* with n values of sum S and sum of squares Q, std = sqrt(n*Q - S*S) / n, so
\* the test is  (simNum / simDen) * sqrt(n*Q - S*S) < S - n * similarities[i]
BelowThreshold(similarities, i, options) ==
    LET n == Len(similarities)
        S == SumSeq(similarities)
        Q == SumSeq([j \in 1..n |-> similarities[j] * similarities[j]])
        d == S - n * similarities[i]
    IN  d > 0 /\ options.simDen * options.simDen * d * d
                   > options.simNum * options.simNum * (n * Q - S * S)

\* mergeTinySections: drop a boundary when the section before it is shorter
\* than minSize; boundaries and merged hold 0-based paragraph indices
RECURSIVE MergeTinyFrom(_, _, _, _, _)
MergeTinyFrom(boundaries, i, merged, paragraphs, minSize) ==
    IF i > Len(boundaries) THEN merged
    ELSE LET prevStart == merged[Len(merged)]
             currentStart == boundaries[i]
             prevSize == SumSeq([j \in 1..(currentStart - prevStart) |->
                                   Len(paragraphs[prevStart + j].text)])
         IN  MergeTinyFrom(boundaries, i + 1,
                           IF prevSize >= minSize THEN Append(merged, currentStart)
                                                  ELSE merged,
                           paragraphs, minSize)

mergeTinySections(boundaries, paragraphs, minSize) ==
    IF Len(boundaries) <= 1 THEN boundaries
    ELSE MergeTinyFrom(boundaries, 2, << boundaries[1] >>, paragraphs, minSize)

DigitChars == << "0", "1", "2", "3", "4", "5", "6", "7", "8", "9" >>
RECURSIVE NumStr(_)
NumStr(n) == IF n < 10 THEN << DigitChars[n + 1] >>
             ELSE NumStr(n \div 10) \o << DigitChars[(n % 10) + 1] >>

\* `Section ${i} of ${n}`
SectionTitle(i, n) ==
    << "S", "e", "c", "t", "i", "o", "n", " " >> \o NumStr(i)
       \o << " ", "o", "f", " " >> \o NumStr(n)

\* the paragraph texts that detectSectionsByEmbedding hands to embedBatch
\* (the empty sequence when it makes no call)
ParagraphTexts(paragraphs) ==
    IF Len(paragraphs) <= 1 THEN <<>>
    ELSE [i \in 1..Len(paragraphs) |-> paragraphs[i].text]

HierarchyEmbedTexts(text) ==
    IF Len(extractHeadings(text)) > 0 THEN <<>> ELSE ParagraphTexts(splitParagraphs(text))

\* the boundaries loop of detectSectionsByEmbedding
RECURSIVE BoundariesFrom(_, _, _)
BoundariesFrom(similarities, i, options) ==
    IF i > Len(similarities) THEN <<>>
    ELSE (IF BelowThreshold(similarities, i, options) THEN << i >> ELSE <<>>)
         \o BoundariesFrom(similarities, i + 1, options)

\* the HeadingNodes detectSectionsByEmbedding builds from the merged boundaries
SectionNodes(text, paragraphs, merged) ==
    [i \in 1..Len(merged) |->
        [level |-> 1,
         title |-> SectionTitle(i, Len(merged)),
         startOffset |-> paragraphs[merged[i] + 1].start,
         endOffset |-> IF i + 1 <= Len(merged)
                       THEN (IF merged[i + 1] >= 1 THEN paragraphs[merged[i + 1]].end
                                                   ELSE Len(text))
                       ELSE paragraphs[Len(paragraphs)].end,
         children |-> <<>>]]

Similarities(vectors) ==
    [i \in 1..(Len(vectors) - 1) |-> cosineSimilarity(vectors[i], vectors[i + 1])]

SectionsOfParagraphs(text, paragraphs, vectors, options) ==
    IF Len(paragraphs) <= 1
    THEN << [level |-> 1, title |-> SectionTitle(1, 1), startOffset |-> 0,
             endOffset |-> Len(text), children |-> <<>>] >>
    ELSE SectionNodes(text, paragraphs,
             mergeTinySections(<< 0 >> \o BoundariesFrom(Similarities(vectors), 1, options),
                               paragraphs, options.minSectionSize))

\* detectSectionsByEmbedding, given the vectors embedBatch returned
detectSectionsByEmbedding(text, vectors, options) ==
    SectionsOfParagraphs(text, splitParagraphs(text), vectors, options)

PositionalTarget == 5
PositionalSpan == 500
CeilDiv(a, b) == (a + b - 1) \div b

\* positionalSections
positionalSections(text) ==
    LET count == MaxOf(1, MinOf(PositionalTarget, CeilDiv(Len(text), PositionalSpan)))
        sectionSize == CeilDiv(Len(text), count)
    IN  [i \in 1..count |->
            [level |-> 1,
             title |-> SectionTitle(i, count),
             startOffset |-> (i - 1) * sectionSize,
             endOffset |-> MinOf(i * sectionSize, Len(text)),
             children |-> <<>>]]

\* the embedder is tried before the headings
HierarchyFromEmbedderFirst(text, flatHeadings, hasEmbedder, vectors, options) ==
    IF hasEmbedder
    THEN [headings |-> detectSectionsByEmbedding(text, vectors, options),
          strategy |-> "embedding-similarity"]
    ELSE IF Len(flatHeadings) > 0
    THEN [headings |-> buildHierarchyTree(flatHeadings, Len(text)),
          strategy |-> "heading"]
    ELSE [headings |-> positionalSections(text), strategy |-> "positional"]

\* extractHierarchy: the strategy and the heading tree of the HierarchyMap
\* (outline and summaries are derived from these and the text).  vectors are
\* what the embedder returned for HierarchyEmbedTexts(text).
HierarchyFrom(text, flatHeadings, hasEmbedder, vectors, options) ==
    IF Len(flatHeadings) > 0
    THEN [headings |-> buildHierarchyTree(flatHeadings, Len(text)),
          strategy |-> "heading"]
    ELSE IF hasEmbedder
    THEN [headings |-> detectSectionsByEmbedding(text, vectors, options),
          strategy |-> "embedding-similarity"]
    ELSE [headings |-> positionalSections(text), strategy |-> "positional"]

extractHierarchy(text, hasEmbedder, vectors, options) ==
    HierarchyFrom(text, extractHeadings(text), hasEmbedder, vectors, options)

\* every section of the heading tree, parents included, in document order
RECURSIVE AllSections(_)
AllSections(headings) ==
    IF headings = <<>> THEN <<>>
    ELSE << Head(headings) >> \o AllSections(Head(headings).children)
         \o AllSections(Tail(headings))

\* flattenSections: the leaves of the heading tree, in document order
RECURSIVE flattenSections(_)
flattenSections(headings) ==
    IF headings = <<>> THEN <<>>
    ELSE LET h == Head(headings)
         IN  (IF Len(h.children) = 0 THEN << h >> ELSE flattenSections(h.children))
             \o flattenSections(Tail(headings))

Undefined == << "undefined" >>

\* the section's end is added to the offsets instead of its start
SectionChunksFromEnd(section, sectionChunks, contextPrefix, globalIndex) ==
    [k \in 1..Len(sectionChunks) |->
        [index |-> globalIndex + k - 1,
         text |-> sectionChunks[k].text,
         start |-> sectionChunks[k].start + section.endOffset,
         end |-> sectionChunks[k].end + section.endOffset,
         hash |-> sectionChunks[k].hash,
         sectionTitle |-> section.title,
         sectionPath |-> contextPrefix,
         contextPrefix |-> IF contextPrefix # <<>>
                           THEN << "[" >> \o contextPrefix \o << "]", " " >>
                           ELSE Undefined]]

\* the chunks of one section, made document-relative and annotated
SectionChunks(section, sectionChunks, contextPrefix, globalIndex) ==
    [k \in 1..Len(sectionChunks) |->
        [index |-> globalIndex + k - 1,
         text |-> sectionChunks[k].text,
         start |-> sectionChunks[k].start + section.startOffset,
         end |-> sectionChunks[k].end + section.startOffset,
         hash |-> sectionChunks[k].hash,
         sectionTitle |-> section.title,
         sectionPath |-> contextPrefix,
         contextPrefix |-> IF contextPrefix # <<>>
                           THEN << "[" >> \o contextPrefix \o << "]", " " >>
                           ELSE Undefined]]

\* the loop of chunkWithHierarchy over the leaf sections
RECURSIVE ChunkSections(_, _, _, _, _)
ChunkSectionsNext(text, sections, headings, options, globalIndex, chunks) ==
    chunks \o ChunkSections(text, Tail(sections), headings, options,
                            globalIndex + Len(chunks))

ChunkSection(text, sections, headings, options, globalIndex, section, sectionText) ==
    IF Len(Trim(sectionText)) = 0
    THEN ChunkSections(text, Tail(sections), headings, options, globalIndex)
    ELSE ChunkSectionsNext(text, sections, headings, options, globalIndex,
             SectionChunks(section, chunkText(sectionText, options),
                           buildContextPrefix(section.startOffset, headings),
                           globalIndex))

ChunkSections(text, sections, headings, options, globalIndex) ==
    IF sections = <<>> THEN <<>>
    ELSE ChunkSection(text, sections, headings, options, globalIndex, Head(sections),
                      Slice(text, Head(sections).startOffset, Head(sections).endOffset))

chunkWithHierarchy(text, hierarchy, options) ==
    ChunkSections(text, flattenSections(hierarchy.headings), hierarchy.headings, options, 0)


\* ------------------------------------------------------------------------
\* Documents and options the requests of the model carry
\* ------------------------------------------------------------------------

NL2 == << "\n", "\n" >>
\* "# A\n\nx."
DocA == << "#", " ", "A" >> \o NL2 \o << "x", "." >>
\* DocA followed by a second section "# B\n\ny."
DocAB == DocA \o NL2 \o << "#", " ", "B" >> \o NL2 \o << "y", "." >>
\* DocA with a trailing newline: another text with the same chunks
DocA2 == DocA \o << "\n" >>
\* three paragraphs without headings: "a.\n\nab.\n\nb."
DocP == << "a", "." >> \o NL2 \o << "a", "b", "." >> \o NL2 \o << "b", "." >>

\* DocP followed by a fourth paragraph on a new topic: "c."
DocPC == DocP \o NL2 \o << "c", "." >>

\* DocAB with its second section replaced: "# A\n\nx.\n\n# C\n\nz."
DocAC == DocA \o NL2 \o << "#", " ", "C" >> \o NL2 \o << "z", "." >>

\* DocA with a section before it: "# B\n\ny.\n\n# A\n\nx."
DocBA == << "#", " ", "B" >> \o NL2 \o << "y", "." >> \o NL2 \o DocA

DocSet == {DocA, DocAB, DocAC, DocBA, DocA2, DocP, DocPC}

\* similarityThreshold 0.5 is simNum / simDen
Options1 == [maxChunkSize |-> 8, overlap |-> 0, minSectionSize |-> 1,
             simNum |-> 1, simDen |-> 2]
OptionSet == {Options1}

\* other chunking options for the same texts: a smaller maxChunkSize
Options2 == [Options1 EXCEPT !.maxChunkSize = 4]
SyncOptionSet == {Options1, Options2}

\* What the sync computes from a document of the model: the paragraph texts
\* extractHierarchy embeds, the hierarchy it returns once the embedder has
\* answered, and the chunks chunkWithHierarchy cuts along that hierarchy.
HierarchyEmbedTextsOf == [d \in DocSet |-> HierarchyEmbedTexts(d)]
SyncHierarchyOf ==
    [d \in DocSet |-> [o \in SyncOptionSet |->
        extractHierarchy(d, TRUE, EmbedBatchVecs(HierarchyEmbedTexts(d)), o)]]
SyncChunksOf ==
    [d \in DocSet |-> [o \in SyncOptionSet |->
        chunkWithHierarchy(d, SyncHierarchyOf[d][o], o)]]

Question == << "a", "?" >>
DefaultLimit == 10

\* ------------------------------------------------------------------------
\* State
\* ------------------------------------------------------------------------

MaxCalls == 3
MaxFailures == 1

Tasks == {"t1", "t2"}

NoHash == << "null", <<>> >>
NoHierarchy == [headings |-> <<>>, strategy |-> "null"]
NoCall == [op |-> "none", text |-> <<>>, options |-> Options1, res |-> "none"]

VARIABLES
    lastDocHash,    \* DocSyncManager.lastDocHash
    storedHashes,   \* DocSyncManager.storedHashes
    lastHierarchy,  \* DocSyncManager.lastHierarchy
    dbTable,        \* the table exists in the LanceDB directory
    rows,           \* the rows of the table, in insertion order
    tableRef,       \* VectorDB.table is set (a cached handle)
    task,           \* per request: where its call stands and its locals
    calls,          \* number of calls started
    failures,       \* number of external calls that failed
    lastDone,       \* the call that completed last
    clean,          \* no call has failed so far
    pipe,           \* Embedder.pipe: 0 for null, else the load that produced it
    loading,        \* Embedder.loading: 0 for null, else the load it is the promise of
    loads           \* the loads started so far, each pending, fulfilled or rejected

vars == << lastDocHash, storedHashes, lastHierarchy, dbTable, rows, tableRef,
           task, calls, failures, lastDone, clean, pipe, loading, loads >>

\* a field of a request body as the handler destructures it
BodyValue(type, value) == [type |-> type, value |-> value]
Missing == BodyValue("undefined", <<>>)
ANumber == BodyValue("number", <<>>)
AString(chars) == BodyValue("string", chars)

NoBody == [text |-> Missing, question |-> Missing]

IdleTask ==
    [pc |-> "idle", op |-> "none", text |-> <<>>, options |-> Options1,
     docHash |-> NoHash, newHashes |-> {},
     mode |-> "none", newChunks |-> <<>>, existingChunks |-> <<>>,
     records |-> <<>>,
     res |-> "none", out |-> [results |-> <<>>, hierarchy |-> NoHierarchy],
     log |-> <<>>,
     route |-> "none", body |-> NoBody, embedder |-> TRUE, cursor |-> 0, parts |-> <<>>, answers |-> <<>>,
     pre |-> [lastDocHash |-> NoHash, storedHashes |-> {}, prev |-> NoCall,
              clean |-> TRUE]]

Init ==
    /\ lastDocHash = NoHash
    /\ storedHashes = {}
    /\ lastHierarchy = NoHierarchy
    /\ dbTable = FALSE
    /\ rows = <<>>
    /\ tableRef = FALSE
    /\ task = [p \in Tasks |-> IdleTask]
    /\ calls = 0
    /\ failures = 0
    /\ lastDone = NoCall
    /\ clean = TRUE
    /\ pipe = 0
    /\ loading = 0
    /\ loads = <<>>

\* entries of a call's log of external calls
ExternalCall(call, prompt, texts, records) ==
    [call |-> call, prompt |-> prompt, texts |-> texts, records |-> records]
EmbedBatchCall(texts) == ExternalCall("embedBatch", "none", texts, <<>>)
EmbedCall(text) == ExternalCall("embed", "none", << text >>, <<>>)
ResetCall == ExternalCall("reset", "none", <<>>, <<>>)
InsertCall(records) == ExternalCall("insert", "none", <<>>, records)
SearchCall == ExternalCall("search", "none", <<>>, <<>>)
GenerateCall(prompt, text) == ExternalCall("generate", prompt, << text >>, <<>>)

RECURSIVE SelectSeq2(_, _)
SelectSeq2(xs, S) ==
    IF xs = <<>> THEN <<>>
    ELSE (IF Head(xs).hash \in S THEN << Head(xs) >> ELSE <<>>) \o SelectSeq2(Tail(xs), S)

HashesOf(chunks) == {chunks[i].hash : i \in 1..Len(chunks)}
TextsOf(chunks) == [i \in 1..Len(chunks) |-> chunks[i].text]

\* chunks.filter(c => !storedHashes.has(c.hash)) and its complement
AllChunks(chunks, stored) == chunks
NotStored(chunks, stored) == SelectSeq2(chunks, HashesOf(chunks) \ stored)
Stored(chunks, stored) == SelectSeq2(chunks, stored)

\* the ChunkRecord built from a chunk and its vector
ChunkRecord(c, vector) ==
    [text |-> c.text, chunkHash |-> c.hash, chunkIndex |-> c.index,
     start |-> c.start, end |-> c.end,
     sectionTitle |-> c.sectionTitle, sectionPath |-> c.sectionPath,
     contextPrefix |-> IF c.contextPrefix = Undefined THEN <<>> ELSE c.contextPrefix,
     vector |-> vector]

RecordsOf(chunks, vectors) == [i \in 1..Len(chunks) |-> ChunkRecord(chunks[i], vectors[i])]


\* ------------------------------------------------------------------------
\* VectorDB
\* ------------------------------------------------------------------------

\* VectorDB.reset: drop the table when it exists, clear the cached handle
VdbResetTable == FALSE
VdbResetRows == <<>>

\* VectorDB.getTable(records) as insert calls it: the cached handle, else the
\* table opened from disk, else a table created from the records
GetTableRows(records) == IF tableRef \/ dbTable THEN rows ELSE records

\* the rest of VectorDB.insert after getTable returned a table: the branch
\* "table && !this.table" is not taken, because getTable has set this.table,
\* so the records are added to the table
InsertAddRows(tableRows, records) == tableRows \o records

\* the rows a search returns: nearest first (distance 0 before distance 2 for
\* unit vectors), at most limit of them
RowsAtDistance(tableRows, queryVector, same) ==
    SelectSeq(tableRows, LAMBDA r : (r.vector = queryVector) = same)

SearchRows(tableRows, queryVector, limit) ==
    LET ordered == RowsAtDistance(tableRows, queryVector, TRUE)
                      \o RowsAtDistance(tableRows, queryVector, FALSE)
    IN  SubSeq(ordered, 1, MinOf(limit, Len(ordered)))

\* ------------------------------------------------------------------------
\* DocSyncManager: one action per block of code between two awaits
\* ------------------------------------------------------------------------

\* "if (docHash === this.lastDocHash) return false"
FastPathNever(docHash) == FALSE
FastPath(docHash) == docHash = lastDocHash

\* "this.storedHashes = newHashes; this.lastDocHash = docHash"
BookStored(t) == t.newHashes
KeepDocHash(t) == lastDocHash
BookDocHash(t) == t.docHash

\* an awaited call throws: syncIfNeeded is left before its last two
\* assignments, so the manager keeps the document hash it had
BookedDocHash(t) == IF t.docHash = NoHash THEN lastDocHash ELSE t.docHash
DocHashOnThrow(t) == lastDocHash

\* DocSyncManager.reset: "this.storedHashes.clear()"
KeptHashes == storedHashes
ClearedHashes == {}

DoneCall(t) == [op |-> t.op, text |-> t.text, options |-> t.options, res |-> t.res]

\* the public method returns or throws: its locals are gone
Returns(t, r) ==
    [t EXCEPT !.pc = "idle", !.res = r, !.newHashes = {}, !.newChunks = <<>>,
              !.existingChunks = <<>>, !.records = <<>>]

\* syncIfNeeded has returned r: a syncIfNeeded call is over, queryWithSync
\* goes on to searchText, which embeds the question first
AfterSync(t, r) ==
    IF t.op = "query"
    THEN [t EXCEPT !.pc = "qEmbed", !.log = Append(@, EmbedCall(Question))]
    ELSE Returns(t, r)

\* the call of p moves to t.  The manager, the routes and the orchestrators
\* see the Embedder from outside, as a call that returns or throws: its
\* pipeline latch is followed where the Embedder is modelled on its own.
Moves(p, t) ==
    /\ task' = [task EXCEPT ![p] = t]
    /\ lastDone' = IF t.pc = "idle" THEN DoneCall(t) ELSE lastDone
    /\ UNCHANGED << pipe, loading, loads >>

\* a call starts: syncIfNeeded(text, options), queryWithSync(text, Question,
\* options) or reset()
Begin(p, op, text, options) ==
    /\ task[p].pc = "idle"
    /\ calls < MaxCalls
    /\ calls' = calls + 1
    /\ task' = [task EXCEPT ![p] =
          [IdleTask EXCEPT
             !.pc = IF op = "reset" THEN "mReset" ELSE "hash",
             !.op = op, !.text = text, !.options = options,
             !.log = IF op = "reset" THEN << ResetCall >> ELSE <<>>,
             !.pre = [lastDocHash |-> lastDocHash, storedHashes |-> storedHashes,
                      prev |-> lastDone, clean |-> clean]]]
    /\ UNCHANGED << lastDocHash, storedHashes, lastHierarchy, dbTable, rows,
                    tableRef, failures, lastDone, clean, pipe, loading, loads >>

\* a route handler calls syncIfNeeded, queryWithSync or reset
Request(p, docs, optionSet) ==
    \E op \in {"sync", "query", "reset"}, text \in docs, options \in optionSet :
        /\ op = "reset" => text = DocA
        /\ Begin(p, op, IF op = "reset" THEN <<>> ELSE text, options)

Caller == "t1"

\* the texts overlapping requests carry
OverlapDocSet == {DocA, DocAB, DocP}

\* requests may overlap: the manager is shared by all requests.  A call in
\* flight takes the first free task, so the second task runs only calls that
\* overlap a call of the first.
Start(p) ==
    /\ p = Caller \/ task[Caller].pc # "idle"
    /\ Request(p, OverlapDocSet, OptionSet)

\* one caller that awaits every call before the next
StartAlone(p) ==
    /\ \A q \in Tasks : task[q].pc = "idle"
    /\ Request(p, DocSet, SyncOptionSet)

\* syncIfNeeded up to its second await: the fast path, else extractHierarchy,
\* which either returns at once (headings, or at most one paragraph) or
\* awaits the embedder
Hashed(p, t, docHash, embedTexts) ==
    IF FastPath(docHash)
    THEN /\ Moves(p, AfterSync([t EXCEPT !.docHash = docHash, !.mode = "fast"], "false"))
         /\ UNCHANGED lastHierarchy
    ELSE IF embedTexts # <<>>
    THEN /\ Moves(p, [t EXCEPT !.docHash = docHash, !.pc = "hierEmbed",
                               !.log = Append(@, EmbedBatchCall(embedTexts))])
         /\ UNCHANGED lastHierarchy
    ELSE /\ Moves(p, [t EXCEPT !.docHash = docHash, !.pc = "chunk"])
         /\ lastHierarchy' = SyncHierarchyOf[t.text][t.options]

HashDone(p) ==
    /\ task[p].pc = "hash"
    /\ Hashed(p, task[p], DocHashOf(task[p].text, task[p].options),
              HierarchyEmbedTextsOf[task[p].text])
    /\ UNCHANGED << lastDocHash, storedHashes, dbTable, rows, tableRef,
                    calls, failures, clean >>

\* the embedder returned the paragraph vectors: the hierarchy is built and cached
HierEmbedDone(p) ==
    LET t == task[p]
    IN  /\ t.pc = "hierEmbed"
        /\ Moves(p, [t EXCEPT !.pc = "chunk"])
        /\ lastHierarchy' = SyncHierarchyOf[t.text][t.options]
        /\ UNCHANGED << lastDocHash, storedHashes, dbTable, rows, tableRef,
                        calls, failures, clean >>

\* which of the three branches the chunk-level diff takes
SyncMode(chunks, stored) ==
    IF stored \ HashesOf(chunks) # {} THEN "full"
    ELSE IF NotStored(chunks, stored) # <<>> THEN "append"
    ELSE "noop"

\* the first external call of fullResync: embed the new chunks, else the
\* existing ones, else reset the store
FullResyncSkipExisting(t, newChunks, existingChunks) ==
    IF newChunks # <<>>
    THEN [t EXCEPT !.pc = "embedNew", !.log = Append(@, EmbedBatchCall(TextsOf(newChunks)))]
    ELSE [t EXCEPT !.pc = "reset", !.log = Append(@, ResetCall)]

FullResyncFirst(t, newChunks, existingChunks) ==
    IF newChunks # <<>>
    THEN [t EXCEPT !.pc = "embedNew", !.log = Append(@, EmbedBatchCall(TextsOf(newChunks)))]
    ELSE IF existingChunks # <<>>
    THEN [t EXCEPT !.pc = "embedOld",
                   !.log = Append(@, EmbedBatchCall(TextsOf(existingChunks)))]
    ELSE [t EXCEPT !.pc = "reset", !.log = Append(@, ResetCall)]

\* chunkWithHierarchy returned: the chunk-level diff and the start of its branch
Chunked(p, t, chunks, mode, toInsert, existing) ==
    IF mode = "full"
    THEN /\ Moves(p, FullResyncFirst([t EXCEPT !.newChunks = toInsert,
                                               !.existingChunks = existing],
                                     toInsert, existing))
         /\ UNCHANGED << lastDocHash, storedHashes >>
    ELSE IF mode = "append"
    THEN /\ Moves(p, [t EXCEPT !.pc = "embedIns", !.newChunks = toInsert,
                               !.log = Append(@, EmbedBatchCall(TextsOf(toInsert)))])
         /\ UNCHANGED << lastDocHash, storedHashes >>
    ELSE /\ Moves(p, AfterSync(t, "true"))
         /\ storedHashes' = BookStored(t)
         /\ lastDocHash' = BookDocHash(t)

Diffed(p, t, chunks) ==
    Chunked(p, [t EXCEPT !.newHashes = HashesOf(chunks),
                         !.mode = SyncMode(chunks, storedHashes)],
            chunks, SyncMode(chunks, storedHashes),
            NotStored(chunks, storedHashes), Stored(chunks, storedHashes))

ChunkDone(p) ==
    /\ task[p].pc = "chunk"
    /\ Diffed(p, task[p], SyncChunksOf[task[p].text][task[p].options])
    /\ UNCHANGED << lastHierarchy, dbTable, rows, tableRef, calls, failures, clean >>

\* fullResync: the new chunks are embedded; next the existing ones, else reset
EmbedNewDone(p) ==
    LET t == task[p]
    IN  /\ t.pc = "embedNew"
        /\ Moves(p, FullResyncFirst(t, <<>>, t.existingChunks))
        /\ UNCHANGED << lastDocHash, storedHashes, lastHierarchy, dbTable, rows,
                        tableRef, calls, failures, clean >>

\* fullResync: the existing chunks are embedded again; next reset the store
EmbedOldDone(p) ==
    LET t == task[p]
    IN  /\ t.pc = "embedOld"
        /\ Moves(p, FullResyncFirst(t, <<>>, <<>>))
        /\ UNCHANGED << lastDocHash, storedHashes, lastHierarchy, dbTable, rows,
                        tableRef, calls, failures, clean >>

\* fullResync: the store is reset; the records of all chunks are inserted
SyncResetDone(p) ==
    LET t == task[p]
        records == RecordsOf(t.newChunks, EmbedBatchVecs(TextsOf(t.newChunks)))
                      \o RecordsOf(t.existingChunks, EmbedBatchVecs(TextsOf(t.existingChunks)))
    IN  /\ t.pc = "reset"
        /\ dbTable' = VdbResetTable
        /\ rows' = VdbResetRows
        /\ tableRef' = FALSE
        /\ IF records # <<>>
           THEN /\ Moves(p, [t EXCEPT !.pc = "insert", !.records = records,
                                      !.log = Append(@, InsertCall(records))])
                /\ UNCHANGED << lastDocHash, storedHashes >>
           ELSE /\ Moves(p, AfterSync(t, "true"))
                /\ storedHashes' = BookStored(t)
                /\ lastDocHash' = BookDocHash(t)
        /\ UNCHANGED << lastHierarchy, calls, failures, clean >>

\* embedAndInsert: the new chunks are embedded; their records are inserted
EmbedInsDone(p) ==
    LET t == task[p]
        records == RecordsOf(t.newChunks, EmbedBatchVecs(TextsOf(t.newChunks)))
    IN  /\ t.pc = "embedIns"
        /\ Moves(p, [t EXCEPT !.pc = "insert", !.records = records,
                              !.log = Append(@, InsertCall(records))])
        /\ UNCHANGED << lastDocHash, storedHashes, lastHierarchy, dbTable, rows,
                        tableRef, calls, failures, clean >>

\* VectorDB.insert: getTable(records) returned the table
InsertGetTable(p) ==
    LET t == task[p]
    IN  /\ t.pc = "insert"
        /\ rows' = GetTableRows(t.records)
        /\ dbTable' = TRUE
        /\ tableRef' = TRUE
        /\ Moves(p, [t EXCEPT !.pc = "add"])
        /\ UNCHANGED << lastDocHash, storedHashes, lastHierarchy, calls, failures, clean >>

\* VectorDB.insert: table.add(records) returned (it fails when the table was
\* dropped meanwhile); insert, then fullResync or embedAndInsert return and
\* syncIfNeeded updates its bookkeeping
AddDone(p) ==
    LET t == task[p]
    IN  /\ t.pc = "add"
        /\ IF dbTable
           THEN /\ rows' = InsertAddRows(rows, t.records)
                /\ Moves(p, AfterSync(t, "true"))
                /\ storedHashes' = BookStored(t)
                /\ lastDocHash' = BookDocHash(t)
                /\ UNCHANGED clean
           ELSE /\ Moves(p, Returns(t, "error"))
                /\ clean' = FALSE
                /\ UNCHANGED << rows, storedHashes, lastDocHash >>
        /\ UNCHANGED << lastHierarchy, dbTable, tableRef, calls, failures >>

\* DocSyncManager.reset: the store is reset, then the bookkeeping is cleared
ManagerResetDone(p) ==
    LET t == task[p]
    IN  /\ t.pc = "mReset"
        /\ dbTable' = VdbResetTable
        /\ rows' = VdbResetRows
        /\ tableRef' = FALSE
        /\ lastDocHash' = NoHash
        /\ lastHierarchy' = NoHierarchy
        /\ storedHashes' = ClearedHashes
        /\ Moves(p, Returns(t, "ok"))
        /\ UNCHANGED << calls, failures, clean >>

\* searchText: the question is embedded; search asks for the table
QEmbedDone(p) ==
    LET t == task[p]
    IN  /\ t.pc = "qEmbed"
        /\ Moves(p, [t EXCEPT !.pc = "qSearch", !.log = Append(@, SearchCall)])
        /\ UNCHANGED << lastDocHash, storedHashes, lastHierarchy, dbTable, rows,
                        tableRef, calls, failures, clean >>

\* search: [] when there is no table, else the nearest rows; queryWithSync
\* returns them with this.lastHierarchy
QSearchDone(p) ==
    LET t == task[p]
        results == IF tableRef \/ dbTable
                   THEN SearchRows(rows, EmbedVec(Question), DefaultLimit) ELSE <<>>
    IN  /\ t.pc = "qSearch"
        /\ tableRef' = (tableRef \/ dbTable)
        /\ Moves(p, Returns([t EXCEPT !.out = [results |-> results,
                                                hierarchy |-> lastHierarchy]], "ok"))
        /\ UNCHANGED << lastDocHash, storedHashes, lastHierarchy, dbTable, rows,
                        calls, failures, clean >>

\* the pending external call (embedder or vector store) fails: the error
\* propagates out of the public method
FailablePcs == {"hierEmbed", "embedNew", "embedOld", "embedIns", "reset",
                "insert", "add", "mReset", "qEmbed", "qSearch"}

CallFails(p) ==
    LET t == task[p]
    IN  /\ t.pc \in FailablePcs
        /\ failures < MaxFailures
        /\ failures' = failures + 1
        /\ clean' = FALSE
        /\ Moves(p, Returns(t, "error"))
        /\ lastDocHash' = DocHashOnThrow(t)
        /\ UNCHANGED << storedHashes, lastHierarchy, dbTable, rows, tableRef, calls >>

Step(p) ==
    \/ HashDone(p)
    \/ HierEmbedDone(p)
    \/ ChunkDone(p)
    \/ EmbedNewDone(p)
    \/ EmbedOldDone(p)
    \/ SyncResetDone(p)
    \/ EmbedInsDone(p)
    \/ InsertGetTable(p)
    \/ AddDone(p)
    \/ ManagerResetDone(p)
    \/ QEmbedDone(p)
    \/ QSearchDone(p)
    \/ CallFails(p)

Next == \E p \in Tasks : Start(p) \/ Step(p)

Spec == Init /\ [][Next]_vars

NextAlone == StartAlone(Caller) \/ Step(Caller)

SeqSpec == Init /\ [][NextAlone]_vars


\* ------------------------------------------------------------------------
\* Properties of DocSyncManager
\* ------------------------------------------------------------------------

\* the call the single caller runs, or the one it ran last
Call == task[Caller]

AllIdle == \A p \in Tasks : task[p].pc = "idle"

ChunksOfCall(t) == SyncChunksOf[t.text][t.options]

\* the chunks of the call's text whose hash was, or was not, in storedHashes
\* when the call began
NewChunksOfCall(t) ==
    SelectSeq(ChunksOfCall(t), LAMBDA c : c.hash \notin t.pre.storedHashes)
OldChunksOfCall(t) ==
    SelectSeq(ChunksOfCall(t), LAMBDA c : c.hash \in t.pre.storedHashes)

\* the EmbedBatch call extractHierarchy makes for a text without headings
\* and with more than one paragraph
HierarchyLog(t) ==
    IF HierarchyEmbedTextsOf[t.text] # <<>>
    THEN << EmbedBatchCall(HierarchyEmbedTextsOf[t.text]) >> ELSE <<>>

EmbedLog(chunks) == IF chunks # <<>> THEN << EmbedBatchCall(TextsOf(chunks)) >> ELSE <<>>
InsertLog(chunks) ==
    IF chunks # <<>>
    THEN << InsertCall(RecordsOf(chunks, EmbedBatchVecs(TextsOf(chunks)))) >> ELSE <<>>

EmbedBatchCalls(log) == SelectSeq(log, LAMBDA e : e.call = "embedBatch")
NoReset(log) == \A i \in 1..Len(log) : log[i].call # "reset"
IsPrefix(a, b) == Len(a) <= Len(b) /\ a = SubSeq(b, 1, Len(a))

StoreHashes == {rows[i].chunkHash : i \in 1..Len(rows)}

\* the call before this one was a syncIfNeeded of the same text that returned
RepeatsSync(t) ==
    /\ t.op = "sync"
    /\ t.pre.prev.op = "sync"
    /\ t.pre.prev.text = t.text
    /\ t.pre.prev.res \in {"true", "false"}

\* C1: a syncIfNeeded(T) that immediately follows a syncIfNeeded(T) which
\* returned makes no call to the embedder or the store and returns false.
C1_RepeatedSyncIsFree ==
    RepeatsSync(Call) =>
        /\ Call.log = <<>>
        /\ Call.pc \in {"hash", "idle"}
        /\ Call.pc = "idle" => Call.res = "false"

C1_Witness ==
    /\ RepeatsSync(Call)
    /\ Call.pc = "idle"
    /\ Call.res = "false"
    /\ Call.pre.prev.res = "true"

\* the call before this one was a syncIfNeeded of the same text that failed
RetriesSync(t) ==
    /\ t.op = "sync"
    /\ t.pre.prev.op = "sync"
    /\ t.pre.prev.text = t.text
    /\ t.pre.prev.res = "error"

\* C2: when a call made by syncIfNeeded(text) fails, storedHashes and
\* lastDocHash are what they were before the call, and the next
\* syncIfNeeded(text) does not take the fast path.
C2_FailureKeepsBookkeeping ==
    /\ (Call.op = "sync" /\ Call.pc = "idle" /\ Call.res = "error") =>
          /\ storedHashes = Call.pre.storedHashes
          /\ lastDocHash = Call.pre.lastDocHash
    /\ RetriesSync(Call) => (Call.mode # "fast" /\ Call.res # "false")

C2_Witness ==
    /\ RetriesSync(Call)
    /\ Call.pc = "idle"
    /\ Call.res = "true"
    /\ Call.log # <<>>

\* C3: whenever no call is in progress, storedHashes is the set of the
\* chunkHash values of the records in the store.
C3_StoredHashesMatchStore == AllIdle => storedHashes = StoreHashes

\* a call between its hash check and its return from syncIfNeeded
InSync(t) ==
    t.pc \in {"hierEmbed", "chunk", "embedNew", "embedOld", "embedIns",
              "reset", "insert", "add"}

\* C4: the syncs of two calls never interleave: at most one call is between
\* its hash check and its bookkeeping update.
C4_SyncsSerialized == Cardinality({p \in Tasks : InSync(task[p])}) <= 1

\* a syncIfNeeded that returned true for a text whose chunks keep every stored
\* hash and add at least one
AppendCase(t) ==
    /\ t.op = "sync" /\ t.pc = "idle" /\ t.res = "true"
    /\ t.docHash # t.pre.lastDocHash
    /\ t.pre.storedHashes \subseteq HashesOf(ChunksOfCall(t))
    /\ HashesOf(ChunksOfCall(t)) \ t.pre.storedHashes # {}

FullCase(t) ==
    /\ t.op = "sync"
    /\ t.pre.storedHashes \ HashesOf(ChunksOfCall(t)) # {}

\* the calls of a full resync, in order
FullLog(t) ==
    HierarchyLog(t) \o EmbedLog(NewChunksOfCall(t)) \o EmbedLog(OldChunksOfCall(t))
        \o << ResetCall >> \o InsertLog(NewChunksOfCall(t) \o OldChunksOfCall(t))

C7_StoreHoldsCurrentChunks ==
    (Call.op = "sync" /\ Call.pc = "idle" /\ Call.res \in {"true", "false"} /\ clean) =>
        /\ Len(rows) = Len(ChunksOfCall(Call))
        /\ StoreHashes = HashesOf(ChunksOfCall(Call))

\* C8: whenever no call is in progress, lastHierarchy is absent exactly when
\* lastDocHash is, and else is the hierarchy of the text lastDocHash hashes.
C8_HierarchyMatchesDocHash ==
    AllIdle =>
        /\ (lastHierarchy = NoHierarchy) <=> (lastDocHash = NoHash)
        /\ \A d \in DocSet : \A o \in OptionSet :
              lastDocHash = hashDocument(d) => lastHierarchy = SyncHierarchyOf[d][o]

\* a full resync has reset the store and its insert has not run yet
InResyncWindow(t) == t.op \in {"sync", "query"} /\ t.mode = "full" /\ t.pc = "insert"

\* C9: no search of a queryWithSync runs while another call is between the
\* reset and the insert of its full resync.
C9_SearchOutsideResyncWindow ==
    [][\A p \in Tasks :
          (task[p].op = "query" /\ task[p].pc = "qSearch" /\ task'[p].res = "ok")
             => \A q \in Tasks \ {p} : ~InResyncWindow(task[q])]_vars

\* the records the first syncIfNeeded of a text leaves in the store: insert
\* creates the table from them and then adds them
FreshRows(t) ==
    RecordsOf(ChunksOfCall(t), EmbedBatchVecs(TextsOf(ChunksOfCall(t))))
        \o RecordsOf(ChunksOfCall(t), EmbedBatchVecs(TextsOf(ChunksOfCall(t))))

FreshLog(t) == HierarchyLog(t) \o EmbedLog(ChunksOfCall(t)) \o InsertLog(ChunksOfCall(t))

AfterReset(t) == t.pre.prev.op = "reset" /\ t.pre.prev.res = "ok"

\* C10: reset leaves the manager and the store as they are initially, and a
\* syncIfNeeded that follows it returns true, makes the calls and leaves the
\* store contents of the first syncIfNeeded of that text on a new manager.
C10_ResetRestoresInit ==
    /\ (Call.op = "reset" /\ Call.pc = "idle" /\ Call.res = "ok") =>
          /\ lastDocHash = NoHash /\ storedHashes = {} /\ lastHierarchy = NoHierarchy
          /\ ~dbTable /\ rows = <<>> /\ ~tableRef
    /\ (Call.op = "sync" /\ Call.pc = "idle" /\ Call.res # "error"
          /\ (AfterReset(Call) \/ Call.pre.prev = NoCall)) =>
          /\ Call.res = "true"
          /\ Call.log = FreshLog(Call)
          /\ rows = FreshRows(Call)

C10_Witness ==
    /\ Call.op = "sync" /\ Call.pc = "idle" /\ Call.res = "true"
    /\ AfterReset(Call)
    /\ calls = 3
    /\ Len(Call.log) = 3

InsertOrReset(log) == SelectSeq(log, LAMBDA e : e.call \in {"insert", "reset"})

\* C11: a syncIfNeeded that completes returns false exactly when the hash of
\* its text was lastDocHash when it was called; otherwise it returns true and
\* records the hash, also when the chunk hashes are the stored ones and
\* neither insert nor reset is issued.
C11_FalseOnlyOnFastPath ==
    (Call.op = "sync" /\ Call.pc = "idle" /\ Call.res \in {"true", "false"}) =>
        /\ (Call.res = "false") <=> (hashDocument(Call.text) = Call.pre.lastDocHash)
        /\ lastDocHash = hashDocument(Call.text)
        /\ HashesOf(ChunksOfCall(Call)) = Call.pre.storedHashes =>
              InsertOrReset(Call.log) = <<>>

C11_Witness ==
    /\ Call.op = "sync" /\ Call.pc = "idle" /\ Call.res = "true"
    /\ HashesOf(ChunksOfCall(Call)) = Call.pre.storedHashes
    /\ Call.pre.lastDocHash # NoHash
    /\ lastDocHash = hashDocument(Call.text)


\* ------------------------------------------------------------------------
\* LLM orchestrators: criticizeDocument, suggestChangesDocument and
\* summarizeDocument
\* ------------------------------------------------------------------------

\* the sliding windows, in characters
ReviewMaxChunkSize == 1500
ReviewOverlap == 200
SummarizeMaxChunkSize == 10000
SummarizeOverlap == 400

\* the texts of the model are WindowScale times shorter than the documents
\* the windows are made for, and so are the windows
WindowScale == 1250
ScaledWindow(maxChunkSize, overlap) ==
    [maxChunkSize |-> maxChunkSize \div WindowScale, overlap |-> overlap \div WindowScale]

\* a text of white space only: it passes the routes' validation and has no chunk
DocBlank == << "\n" >>

\* the texts the analysis routes and the orchestrators are given
OrchDocSet == {DocBlank, DocA, DocP}

ReviewChunksOf ==
    [d \in OrchDocSet |-> chunkText(d, ScaledWindow(ReviewMaxChunkSize, ReviewOverlap))]
SummaryChunksOf ==
    [d \in OrchDocSet |-> chunkText(d, ScaledWindow(SummarizeMaxChunkSize, SummarizeOverlap))]

\* What Agent.generate answers to a review prompt: an opening fence ("json" for
\* ```json, "plain" for ```), a body (a JSON array of findings, the empty
\* array, nothing, prose that is no JSON, a JSON object) and a closing fence
\* ("end" when the content ends with ```, "nl" when a newline follows it).
ReviewContent(open, body, close) == [open |-> open, body |-> body, close |-> close]

ReviewContents ==
    { ReviewContent("json", "array", "end"), ReviewContent("none", "array", "none"),
      ReviewContent("json", "array", "nl"), ReviewContent("plain", "array", "end"),
      ReviewContent("none", "empty", "none"), ReviewContent("none", "blank", "none"),
      ReviewContent("none", "prose", "none"), ReviewContent("none", "object", "none") }

\* content.replace(/^```json/, "").replace(/```$/, "").trim()
StripFence(content) ==
    [content EXCEPT !.open = IF @ = "json" THEN "none" ELSE @,
                    !.close = IF @ = "end" THEN "none" ELSE @]

\* "if (jsonStr)": the stripped content is not the empty string
NonEmptyJsonStr(jsonStr) ==
    jsonStr.open # "none" \/ jsonStr.close # "none" \/ jsonStr.body # "blank"

\* the findings the model of the agent reports on a chunk
ReviewItems(chunk) ==
    << [quote |-> chunk.text, finding |-> 1], [quote |-> chunk.text, finding |-> 2] >>

\* JSON.parse(jsonStr): it throws on a fence left over and on prose
JsonParseThrows(jsonStr) ==
    jsonStr.open # "none" \/ jsonStr.close # "none" \/ jsonStr.body \in {"prose", "blank"}

JsonParse(jsonStr, chunk) ==
    IF jsonStr.body = "array" THEN [iterable |-> TRUE, items |-> ReviewItems(chunk)]
    ELSE IF jsonStr.body = "empty" THEN [iterable |-> TRUE, items |-> <<>>]
    ELSE [iterable |-> FALSE, items |-> <<>>]

\* "all.push(...parsed)": spreading a value that is no iterable throws, and
\* the catch of the loop body leaves the results as they are
PushAll(all, parsed) == IF parsed.iterable THEN all \o parsed.items ELSE all

\* a chunk that cannot be parsed empties the results
ReviewPushedOrCleared(all, jsonStr, chunk) ==
    IF NonEmptyJsonStr(jsonStr) /\ ~JsonParseThrows(jsonStr)
    THEN PushAll(all, JsonParse(jsonStr, chunk))
    ELSE <<>>

\* the loop body after generate returned: strip, parse, push
ReviewPushed(all, jsonStr, chunk) ==
    IF NonEmptyJsonStr(jsonStr) /\ ~JsonParseThrows(jsonStr)
    THEN PushAll(all, JsonParse(jsonStr, chunk))
    ELSE all

\* what Agent.generate answers to a summary prompt
SummaryContents == { << "s" >>, << " ", "t", "\n" >>, << " " >> }

Answer(threw, content) == [threw |-> threw, content |-> content]
NoContent == <<>>

\* chunkSummaries.map((s, i) => `--- Chunk ${i + 1} Summary ---\n${s}`).join("\n\n")
ChunkSummaryText(s, i) ==
    << "-", "-", "-", " ", "C", "h", "u", "n", "k", " " >> \o NumStr(i)
        \o << " ", "S", "u", "m", "m", "a", "r", "y", " ", "-", "-", "-", "\n" >> \o s

CombinedSummariesText(chunkSummaries) ==
    Join([i \in 1..Len(chunkSummaries) |-> ChunkSummaryText(chunkSummaries[i], i)], NL2)

\* analyzeText
analyzeText(text) ==
    [totalCharacters |-> Len(text),
     totalWords |-> Len(SelectSeq(Split("ws", text), LAMBDA w : w # <<>>)),
     totalParagraphs |-> Len(NonBlank(Split("para", text)))]

\* What the /analyze/chunk and /analyze/hierarchy routes compute from a text:
\* the hierarchy extractHierarchy returns with the shared embedder once the
\* embedder has answered, and the result of analyzeDocument with and without it.
RouteHierarchyOf ==
    [d \in OrchDocSet |-> [o \in OptionSet |->
        extractHierarchy(d, TRUE, EmbedBatchVecs(HierarchyEmbedTexts(d)), o)]]
RouteEmbedTextsOf == [d \in OrchDocSet |-> HierarchyEmbedTexts(d)]

analyzeDocument(text, options, hierarchy) ==
    [stats |-> analyzeText(text),
     chunks |-> IF hierarchy = NoHierarchy THEN chunkText(text, options)
                ELSE chunkWithHierarchy(text, hierarchy, options),
     hierarchy |-> hierarchy]

AnalysisOf ==
    [d \in OrchDocSet |-> [o \in OptionSet |-> [useHierarchy \in BOOLEAN |->
        analyzeDocument(d, o, IF useHierarchy THEN RouteHierarchyOf[d][o] ELSE NoHierarchy)]]]

\* ------------------------------------------------------------------------
\* The HTTP surface and the orchestrators as processes
\* ------------------------------------------------------------------------

\* "!text || typeof text !== 'string'" is false
ValidString(v) == v.type = "string" /\ v.value # <<>>

\* the routes registerAnalyzeRoutes registers
Routes == {"chunk", "stats", "query", "hierarchy", "criticize", "suggest"}

\* the texts /analyze/query and the review routes are given
QueryDocSet == {DocA, DocAB, DocP}
ReviewDocSet == {DocBlank, DocA}

RouteDocSet(route) ==
    IF route = "query" THEN QueryDocSet
    ELSE IF route \in {"criticize", "suggest"} THEN ReviewDocSet
    ELSE OrchDocSet

BodyTexts(route) ==
    {Missing, ANumber, AString(<<>>)} \cup {AString(d) : d \in RouteDocSet(route)}
BodyQuestions(route) ==
    IF route = "query" THEN {Missing, AString(<<>>), AString(Question)}
    ELSE {Missing}
BodyFlags(route) == IF route = "chunk" THEN BOOLEAN ELSE {FALSE}

\* only the text is validated
ValidTextOnly(route, text, question) == ValidString(text)

\* the handler's validation: /analyze/query also validates the question
ValidBody(route, text, question) ==
    ValidString(text) /\ (route = "query" => ValidString(question))

\* a call as it is entered
NewCall(op, route, body, text, options) ==
    [IdleTask EXCEPT
       !.op = op, !.route = route, !.body = body, !.text = text, !.options = options,
       !.pre = [lastDocHash |-> lastDocHash, storedHashes |-> storedHashes,
                prev |-> lastDone, clean |-> clean]]

\* the value a call returns
Result(t, value, hierarchy) ==
    Returns([t EXCEPT !.out = [results |-> value, hierarchy |-> hierarchy]], "ok")

\* the number of requests the client of the HTTP surface makes
MaxRequests == 2

\* the call of p is entered and runs to its first await, or to its end
Enter(p, t) ==
    /\ task[p].pc = "idle"
    /\ calls < MaxRequests
    /\ calls' = calls + 1
    /\ Moves(p, t)
    /\ UNCHANGED << lastDocHash, storedHashes, lastHierarchy, dbTable, rows,
                    tableRef, failures, clean >>

\* extractHierarchy(text, embedder, options) of the /chunk and /hierarchy
\* routes: it awaits the shared embedder for a text without headings that has
\* more than one paragraph
AwaitHierarchy(t, embedTexts, done) ==
    IF embedTexts # <<>>
    THEN [t EXCEPT !.pc = "aEmbed", !.log = Append(@, EmbedBatchCall(embedTexts))]
    ELSE done

ChunkRouteResult(t, useHierarchy) ==
    Result(t, << AnalysisOf[t.text][t.options][useHierarchy] >>,
           IF useHierarchy THEN RouteHierarchyOf[t.text][t.options] ELSE NoHierarchy)

HierarchyRouteResult(t) ==
    Result(t, <<>>, RouteHierarchyOf[t.text][t.options])

ReviewPrompt(op) == IF op = "criticize" THEN "criticism" ELSE "suggest"
MAP_PROMPT == "MAP"
REDUCE_PROMPT == "REDUCE"

\* agent.generate is called on the chunk at the cursor
Generate(t, pc, cursor, prompt, text) ==
    [t EXCEPT !.pc = pc, !.cursor = cursor, !.log = Append(@, GenerateCall(prompt, text))]

\* criticizeDocument and suggestChangesDocument up to the first generate
ReviewStart(t, chunks) ==
    IF chunks = <<>> THEN Result(t, <<>>, NoHierarchy)
    ELSE Generate(t, "review", 1, ReviewPrompt(t.op), chunks[1].text)

\* without the single-chunk path: one chunk goes through MAP as well
SummarizeStartWithMap(t, chunks) ==
    IF Len(chunks) = 0 THEN Result(t, <<>>, NoHierarchy)
    ELSE Generate(t, "map", 1, MAP_PROMPT, chunks[1].text)

\* summarizeDocument up to the first generate
SummarizeStart(t, chunks) ==
    IF Len(chunks) = 0 THEN Result(t, <<>>, NoHierarchy)
    ELSE IF Len(chunks) = 1 THEN Generate(t, "reduce", 1, REDUCE_PROMPT, chunks[1].text)
    ELSE Generate(t, "map", 1, MAP_PROMPT, chunks[1].text)

\* what a route handler does with a valid body, up to its first await
Handle(t, useHierarchy) ==
    CASE t.route = "stats" -> Result(t, << analyzeText(t.text) >>, NoHierarchy)
      [] t.route = "chunk" ->
            IF useHierarchy
            THEN AwaitHierarchy([t EXCEPT !.mode = "hierarchy"], RouteEmbedTextsOf[t.text],
                                ChunkRouteResult(t, TRUE))
            ELSE ChunkRouteResult(t, FALSE)
      [] t.route = "hierarchy" ->
            AwaitHierarchy(t, RouteEmbedTextsOf[t.text], HierarchyRouteResult(t))
      [] t.route = "query" -> [t EXCEPT !.pc = "hash"]
      [] OTHER -> ReviewStart(t, ReviewChunksOf[t.text])

\* a POST to /analyze/<route>: the body is validated, and a valid one is
\* handed to the core
HttpRequest(p) ==
    \E route \in Routes, options \in OptionSet :
        \E text \in BodyTexts(route), question \in BodyQuestions(route),
           useHierarchy \in BodyFlags(route) :
            Enter(p, IF ValidBody(route, text, question)
                     THEN Handle(NewCall(route, route, [text |-> text, question |-> question],
                                         text.value, options), useHierarchy)
                     ELSE Returns(NewCall(route, route, [text |-> text, question |-> question],
                                          <<>>, options), "invalid"))

\* summarizeDocument(text), called directly
SummarizeCall(p) ==
    \E text \in OrchDocSet :
        Enter(p, SummarizeStart(NewCall("summarize", "none", NoBody, text, Options1),
                                SummaryChunksOf[text]))

\* an orchestrator or analysis call goes on: the sync manager and the store
\* are not touched
Continue(p, t) ==
    /\ Moves(p, t)
    /\ UNCHANGED << lastDocHash, storedHashes, lastHierarchy, dbTable, rows,
                    tableRef, calls, failures, clean >>

\* the route's hierarchy is kept in the sync manager
AnalyzeEmbedDoneCached(p) ==
    /\ task[p].pc = "aEmbed"
    /\ Moves(p, IF task[p].route = "chunk" THEN ChunkRouteResult(task[p], TRUE)
                ELSE HierarchyRouteResult(task[p]))
    /\ lastHierarchy' = RouteHierarchyOf[task[p].text][task[p].options]
    /\ UNCHANGED << lastDocHash, storedHashes, dbTable, rows, tableRef, calls,
                    failures, clean >>

\* the shared embedder answered extractHierarchy
AnalyzeEmbedDone(p) ==
    /\ task[p].pc = "aEmbed"
    /\ Continue(p, IF task[p].route = "chunk" THEN ChunkRouteResult(task[p], TRUE)
                   ELSE HierarchyRouteResult(task[p]))

\* the shared embedder failed: extractHierarchy throws, and so does the handler
AnalyzeEmbedFails(p) ==
    /\ task[p].pc = "aEmbed"
    /\ Continue(p, Returns(task[p], "error"))

\* the body of the review loop is over for the chunk at the cursor: the next
\* chunk is sent, or the results are returned
ReviewNext(t, chunks, all, answer) ==
    IF t.cursor < Len(chunks)
    THEN Generate([t EXCEPT !.parts = all, !.answers = Append(@, answer)],
                  "review", t.cursor + 1, ReviewPrompt(t.op), chunks[t.cursor + 1].text)
    ELSE Result([t EXCEPT !.parts = all, !.answers = Append(@, answer)], all, NoHierarchy)

ReviewAnswered(t, chunks, content) ==
    ReviewNext(t, chunks, ReviewPushed(t.parts, StripFence(content), chunks[t.cursor]),
               Answer(FALSE, content))

\* agent.generate returned content for the chunk at the cursor
ReviewGenerateDone(p) ==
    \E content \in ReviewContents :
        /\ task[p].pc = "review"
        /\ Continue(p, ReviewAnswered(task[p], ReviewChunksOf[task[p].text], content))

\* agent.generate threw: the catch logs it and the loop goes on
ReviewGenerateFails(p) ==
    /\ task[p].pc = "review"
    /\ Continue(p, ReviewNext(task[p], ReviewChunksOf[task[p].text], task[p].parts,
                              Answer(TRUE, NoContent)))

\* the summaries are collected newest first
SummaryPushedFirst(chunkSummaries, summary) ==
    IF summary # <<>> THEN << summary >> \o chunkSummaries ELSE chunkSummaries

\* "const summary = content.trim(); if (summary) chunkSummaries.push(summary)"
SummaryPushed(chunkSummaries, summary) ==
    IF summary # <<>> THEN Append(chunkSummaries, summary) ELSE chunkSummaries

\* without the empty check: REDUCE is called on whatever was collected
AfterMapAlwaysReduce(t, chunkSummaries) ==
    Generate(t, "reduce", t.cursor, REDUCE_PROMPT, CombinedSummariesText(chunkSummaries))

\* the MAP loop is over: without a summary the call throws, else REDUCE is
\* called on the combined summaries
AfterMap(t, chunkSummaries) ==
    IF Len(chunkSummaries) = 0 THEN Returns(t, "error")
    ELSE Generate(t, "reduce", t.cursor, REDUCE_PROMPT, CombinedSummariesText(chunkSummaries))

\* the body of the MAP loop is over for the chunk at the cursor
MapNext(t, chunks, chunkSummaries, answer) ==
    IF t.cursor < Len(chunks)
    THEN Generate([t EXCEPT !.parts = chunkSummaries, !.answers = Append(@, answer)],
                  "map", t.cursor + 1, MAP_PROMPT, chunks[t.cursor + 1].text)
    ELSE AfterMap([t EXCEPT !.parts = chunkSummaries, !.answers = Append(@, answer)],
                  chunkSummaries)

MapDone(p) ==
    \E content \in SummaryContents :
        /\ task[p].pc = "map"
        /\ Continue(p, MapNext(task[p], SummaryChunksOf[task[p].text],
                               SummaryPushed(task[p].parts, Trim(content)),
                               Answer(FALSE, content)))

MapFails(p) ==
    /\ task[p].pc = "map"
    /\ Continue(p, MapNext(task[p], SummaryChunksOf[task[p].text], task[p].parts,
                           Answer(TRUE, NoContent)))

\* REDUCE returned: "return content.trim()"
ReduceDone(p) ==
    \E content \in SummaryContents :
        /\ task[p].pc = "reduce"
        /\ Continue(p, Result([task[p] EXCEPT !.answers = Append(@, Answer(FALSE, content))],
                              Trim(content), NoHierarchy))

\* REDUCE threw: the catch rethrows
ReduceFails(p) ==
    /\ task[p].pc = "reduce"
    /\ Continue(p, Returns([task[p] EXCEPT !.answers = Append(@, Answer(TRUE, NoContent))],
                           "error"))

\* What the client gets.  A handler returns Response.json(...) itself; when
\* the core throws, no handler, Router.handle or fetch catches it, and the
\* rejection leaves fetch.
JsonResponse(status, body) == [status |-> status, body |-> body, caught |-> TRUE]
Uncaught == [status |-> 0, body |-> "none", caught |-> FALSE]
HttpResponse(t) ==
    IF t.res = "invalid" THEN JsonResponse(400, "error")
    ELSE IF t.res = "error" THEN Uncaught
    ELSE JsonResponse(200, "result")

\* one client of the HTTP surface that awaits every answer, and a direct
\* caller of summarizeDocument
NextApi ==
    \/ HttpRequest(Caller)
    \/ SummarizeCall(Caller)
    \/ HashDone(Caller)
    \/ HierEmbedDone(Caller)
    \/ ChunkDone(Caller)
    \/ EmbedNewDone(Caller)
    \/ EmbedOldDone(Caller)
    \/ SyncResetDone(Caller)
    \/ EmbedInsDone(Caller)
    \/ InsertGetTable(Caller)
    \/ AddDone(Caller)
    \/ QEmbedDone(Caller)
    \/ QSearchDone(Caller)
    \/ CallFails(Caller)
    \/ AnalyzeEmbedDone(Caller)
    \/ AnalyzeEmbedFails(Caller)
    \/ ReviewGenerateDone(Caller)
    \/ ReviewGenerateFails(Caller)
    \/ MapDone(Caller)
    \/ MapFails(Caller)
    \/ ReduceDone(Caller)
    \/ ReduceFails(Caller)

ApiSpec == Init /\ [][NextApi]_vars


\* ------------------------------------------------------------------------
\* Properties of the orchestrators and of the HTTP surface
\* ------------------------------------------------------------------------

IsReview(t) == t.op \in {"criticize", "suggest"} /\ t.res # "invalid"

\* the number of chunks the call has sent to the agent so far
Sent(t) == IF t.pc = "idle" THEN Len(t.answers) ELSE t.cursor

\* the generate calls of a loop over the first n chunks, in chunk order
GenerateLog(prompt, chunks, n) ==
    [i \in 1..n |-> GenerateCall(prompt, chunks[i].text)]

\* the answer is a JSON array once a leading ```json and a trailing ``` are
\* taken away
CleanArray(content) ==
    /\ content.open \in {"none", "json"}
    /\ content.close \in {"none", "end"}
    /\ content.body \in {"array", "empty"}

\* the array parsed for a chunk that succeeded, nothing for a chunk that did not
ParsedFor(answer, chunk) ==
    IF answer.threw THEN <<>>
    ELSE IF CleanArray(answer.content) /\ answer.content.body = "array"
    THEN ReviewItems(chunk)
    ELSE <<>>

RECURSIVE ConcatParsed(_, _, _)
ConcatParsed(answers, chunks, i) ==
    IF i > Len(answers) THEN <<>>
    ELSE ParsedFor(answers[i], chunks[i]) \o ConcatParsed(answers, chunks, i + 1)

ReviewHolds(t, chunks) ==
    /\ Len(t.answers) \in {Sent(t), Sent(t) - 1}
    /\ t.log = GenerateLog(ReviewPrompt(t.op), chunks, Sent(t))
    /\ t.parts = ConcatParsed(t.answers, chunks, 1)
    /\ t.pc = "idle" =>
          /\ t.res = "ok"
          /\ Sent(t) = Len(chunks)
          /\ t.out.results = t.parts

IsSummarize(t) == t.op = "summarize"

GenerateCalls(log, prompt) ==
    SelectSeq(log, LAMBDA e : e.call = "generate" /\ e.prompt = prompt)

SummarizeShort(t, chunks) ==
    /\ Len(chunks) = 0 =>
          /\ t.pc = "idle"
          /\ t.res = "ok"
          /\ t.out.results = <<>>
          /\ t.log = <<>>
    /\ Len(chunks) = 1 =>
          /\ t.log = << GenerateCall(REDUCE_PROMPT, chunks[1].text) >>
          /\ t.pc \in {"reduce", "idle"}

\* C13: summarizeDocument on a text without chunks returns the empty string
\* and calls the agent not at all; on a text of one chunk its only agent call
\* is one generate with the REDUCE prompt on that chunk's text.
C13_SummarizeShortText ==
    IsSummarize(Call) => SummarizeShort(Call, SummaryChunksOf[Call.text])

C13_Witness ==
    /\ IsSummarize(Call)
    /\ Len(SummaryChunksOf[Call.text]) = 1
    /\ Call.pc = "idle"
    /\ Call.res = "ok"
    /\ Call.out.results = << "t" >>

\* the summaries of the MAP answers, in chunk order: the answers of the first
\* n calls that returned, trimmed, the empty ones left out
RECURSIVE MapSummaries(_, _, _)
MapSummaries(answers, n, i) ==
    IF i > n THEN <<>>
    ELSE (IF ~answers[i].threw /\ Trim(answers[i].content) # <<>>
          THEN << Trim(answers[i].content) >> ELSE <<>>)
         \o MapSummaries(answers, n, i + 1)

MapThenReduce(t, chunks, maps, reduces) ==
    /\ maps = GenerateLog(MAP_PROMPT, chunks, Len(maps))
    /\ t.pc # "map" => Len(maps) = Len(chunks)
    /\ Len(reduces) <= 1
    /\ reduces # <<>> =>
          /\ t.log = maps \o reduces
          /\ Len(maps) = Len(chunks)
          /\ Len(t.answers) >= Len(chunks)
          /\ reduces[1].texts =
                << CombinedSummariesText(MapSummaries(t.answers, Len(chunks), 1)) >>

\* C14: on a text of more than one chunk summarizeDocument calls generate
\* with the MAP prompt once per chunk, in chunk order, and with the REDUCE
\* prompt at most once, after every MAP call has returned or thrown, on the
\* combination of the MAP summaries in chunk order.
C14_MapThenReduce ==
    (IsSummarize(Call) /\ Len(SummaryChunksOf[Call.text]) > 1) =>
        MapThenReduce(Call, SummaryChunksOf[Call.text],
                      GenerateCalls(Call.log, MAP_PROMPT),
                      GenerateCalls(Call.log, REDUCE_PROMPT))

C14_Witness ==
    /\ IsSummarize(Call)
    /\ Len(SummaryChunksOf[Call.text]) > 1
    /\ Call.pc = "idle"
    /\ Call.res = "ok"
    /\ Call.parts = << << "s" >>, << "t" >> >>
    /\ Len(GenerateCalls(Call.log, REDUCE_PROMPT)) = 1

SummarizeLong(t) == IsSummarize(t) /\ Len(SummaryChunksOf[t.text]) > 1 /\ t.pc = "idle"

\* the REDUCE call was made and threw
ReduceThrew(t, n) == Len(t.answers) = n + 1 /\ t.answers[n + 1].threw

EveryMapThrew(t, n) == \A i \in 1..n : t.answers[i].threw

SummarizeOutcome(t, n, mapsFailed) ==
    /\ (t.res = "error") <=> (mapsFailed \/ ReduceThrew(t, n))
    /\ t.res = "ok" =>
          /\ Len(t.answers) = n + 1
          /\ t.out.results = Trim(t.answers[n + 1].content)

\* C15 as stated: summarizeDocument on a text of more than one chunk throws
\* exactly when every MAP call threw or the REDUCE call threw, and otherwise
\* returns the trimmed REDUCE answer.
C15_FailsIffAllMapOrReduceThrew ==
    SummarizeLong(Call) =>
        SummarizeOutcome(Call, Len(SummaryChunksOf[Call.text]),
                         EveryMapThrew(Call, Len(SummaryChunksOf[Call.text])))

\* C15, amended: summarizeDocument on a text of more than one chunk throws
\* exactly when no MAP call returned a summary that is non-empty once trimmed
\* (each MAP call threw or answered white space only) or the REDUCE call
\* threw; a MAP call that threw is skipped, and otherwise the trimmed REDUCE
\* answer is returned.
C15_FailsIffNoSummaryOrReduceThrew ==
    SummarizeLong(Call) =>
        SummarizeOutcome(Call, Len(SummaryChunksOf[Call.text]),
                         MapSummaries(Call.answers, Len(SummaryChunksOf[Call.text]), 1) = <<>>)

C15_Witness ==
    /\ SummarizeLong(Call)
    /\ Call.res = "error"
    /\ Len(Call.answers) = Len(SummaryChunksOf[Call.text])
    /\ ~Call.answers[1].threw
    /\ Call.answers[2].threw

\* a request to a route has been answered, or has thrown
Answered(t) == t.route # "none" /\ t.pc = "idle"

\* C16: when the core function a route calls fails, the client gets status
\* 500 with a JSON {error} body, and the failure is caught inside the
\* request boundary.
C16_CoreFailureAnswered500 ==
    (Answered(Call) /\ Call.res = "error") =>
        HttpResponse(Call) = JsonResponse(500, "error")

\* missing, empty or not a string
BadString(v) == v.type # "string" \/ v.value = <<>>

BadBody(t) == BadString(t.body.text) \/ (t.route = "query" /\ BadString(t.body.question))

\* this step is the arrival of a request at a route
Arrives(t) == calls' = calls + 1 /\ t.route # "none"

Rejected(t) ==
    /\ t.pc = "idle"
    /\ t.res = "invalid"
    /\ t.log = <<>>
    /\ HttpResponse(t) = JsonResponse(400, "error")
    /\ UNCHANGED << lastDocHash, storedHashes, lastHierarchy, dbTable, rows, tableRef >>

AnalysisOps == {"chunk", "stats", "hierarchy", "criticize", "suggest", "summarize"}

\* the call this step belongs to: the one that arrives, else the one in flight
Acting == IF calls' # calls THEN task'[Caller] ELSE task[Caller]

\* C18: a step of analyzeDocument, analyzeText, extractHierarchy,
\* criticizeDocument, suggestChangesDocument or summarizeDocument, called by
\* its route or directly, leaves the sync manager's lastDocHash, storedHashes
\* and lastHierarchy and the vector store as they are, whatever requests came
\* before; only queryWithSync writes them.
C18_OnlyQueryWritesSharedState ==
    [][Acting.op \in AnalysisOps =>
          UNCHANGED << lastDocHash, storedHashes, lastHierarchy, dbTable, rows, tableRef >>]_vars

C18_Witness ==
    /\ Call.op \in {"chunk", "hierarchy"}
    /\ Call.pc = "idle"
    /\ Call.res = "ok"
    /\ Call.log # <<>>
    /\ rows # <<>>
    /\ lastDocHash # NoHash
    /\ lastHierarchy # Call.out.hierarchy


\* ------------------------------------------------------------------------
\* extractHierarchy on its own: texts built from heading and body lines
\* ------------------------------------------------------------------------

\* the lines of the texts: markdown headings of three levels, a sentence, a
\* blank line, an ALL-CAPS line of three words, numbered headings of two
\* depths, and a two-part number without a separator after it
NumberedLine == << "1", ".", " ", "T" >>
NestedLine == << "1", ".", "1", " ", "N" >>
HierLines ==
    { << "#", " ", "A" >>, << "#", "#", " ", "B" >>, << "#", "#", "#", " ", "C" >>,
      << "x", "." >>, <<>>, << "A", " ", "B", " ", "C" >>,
      NumberedLine, << "1", ".", "1", ".", " ", "T" >>, NestedLine }

MaxLines == 3

\* the texts of at most MaxLines lines
HierDocSet ==
    UNION {{Join(lines, << "\n" >>) : lines \in [1..n -> HierLines]} : n \in 1..MaxLines}

\* a call extractHierarchy(text, embedder?, options) about to run
ExtractCall(text, hasEmbedder) ==
    [IdleTask EXCEPT !.pc = "extract", !.op = "extract", !.text = text,
                     !.embedder = hasEmbedder]

HierInit ==
    /\ lastDocHash = NoHash
    /\ storedHashes = {}
    /\ lastHierarchy = NoHierarchy
    /\ dbTable = FALSE
    /\ rows = <<>>
    /\ tableRef = FALSE
    /\ \E text \in HierDocSet, hasEmbedder \in BOOLEAN :
          task = [p \in Tasks |-> IF p = Caller THEN ExtractCall(text, hasEmbedder)
                                  ELSE IdleTask]
    /\ calls = 1
    /\ failures = 0
    /\ lastDone = NoCall
    /\ clean = TRUE
    /\ pipe = 0
    /\ loading = 0
    /\ loads = <<>>

\* extractHierarchy up to its await: with headings, without an embedder or
\* with at most one paragraph it returns without one
Extracted(t, flatHeadings, paragraphs) ==
    IF Len(flatHeadings) = 0 /\ t.embedder /\ Len(paragraphs) > 1
    THEN [t EXCEPT !.pc = "xEmbed", !.log = Append(@, EmbedBatchCall(ParagraphTexts(paragraphs)))]
    ELSE Result(t, <<>>, HierarchyFrom(t.text, flatHeadings, t.embedder, <<>>, t.options))

ExtractStart(p) ==
    /\ task[p].pc = "extract"
    /\ Continue(p, Extracted(task[p], extractHeadings(task[p].text),
                             splitParagraphs(task[p].text)))

\* embedBatch returned the paragraph vectors
ExtractEmbedDone(p) ==
    /\ task[p].pc = "xEmbed"
    /\ Continue(p, Result(task[p], <<>>,
                          extractHierarchy(task[p].text, TRUE,
                                           EmbedBatchVecs(HierarchyEmbedTexts(task[p].text)),
                                           task[p].options)))

\* embedBatch threw: extractHierarchy throws
ExtractEmbedFails(p) ==
    /\ task[p].pc = "xEmbed"
    /\ Continue(p, Returns(task[p], "error"))

NextHier ==
    \/ ExtractStart(Caller)
    \/ ExtractEmbedDone(Caller)
    \/ ExtractEmbedFails(Caller)

HierSpec == HierInit /\ [][NextHier]_vars


\* ------------------------------------------------------------------------
\* Properties of extractHierarchy
\* ------------------------------------------------------------------------

IsExtract(t) == t.op = "extract"
Extracts(t) == IsExtract(t) /\ t.pc = "idle" /\ t.res = "ok"

StrategyFor(found, hasEmbedder) ==
    IF found THEN "heading"
    ELSE IF hasEmbedder THEN "embedding-similarity"
    ELSE "positional"

StrategySelected(t, found) ==
    /\ Extracts(t) => t.out.hierarchy.strategy = StrategyFor(found, t.embedder)
    /\ found =>
          /\ t.log = <<>>
          /\ t.pc \in {"extract", "idle"}
          /\ t.pc = "idle" => t.res = "ok"

\* C19: extractHierarchy reports "heading" exactly when extractHeadings finds
\* a heading in the text, otherwise "embedding-similarity" exactly when it was
\* given an embedder, otherwise "positional"; with headings in the text it
\* never calls the embedder.
C19_StrategySelection ==
    IsExtract(Call) => StrategySelected(Call, Len(extractHeadings(Call.text)) > 0)

C19_Witness ==
    /\ Extracts(Call)
    /\ Call.embedder
    /\ Call.out.hierarchy.strategy = "heading"
    /\ Len(splitParagraphs(Call.text)) > 1

NonOverlapping(nodes) ==
    \A i, j \in 1..Len(nodes) :
        i < j => \/ nodes[i].endOffset <= nodes[j].startOffset
                 \/ nodes[j].endOffset <= nodes[i].startOffset

\* the nodes and all their descendants are well-formed: lo..hi is the range of
\* the parent (of the text for the roots), level the parent's level
RECURSIVE TreeOk(_, _, _, _, _)
TreeOk(nodes, len, lo, hi, level) ==
    /\ NonOverlapping(nodes)
    /\ \A i \in 1..Len(nodes) :
          /\ nodes[i].startOffset < nodes[i].endOffset
          /\ nodes[i].endOffset <= len
          /\ lo <= nodes[i].startOffset
          /\ nodes[i].endOffset <= hi
          /\ nodes[i].level > level
          /\ TreeOk(nodes[i].children, len, nodes[i].startOffset, nodes[i].endOffset,
                    nodes[i].level)

HeadingTree(t) == Extracts(t) /\ t.out.hierarchy.strategy = "heading"

\* C20: in the tree extractHierarchy builds for a text with headings, every
\* node has startOffset < endOffset <= the length of the text, every child's
\* range lies within its parent's, siblings do not overlap, and levels grow
\* strictly from parent to child.
C20_HeadingTreeWellFormed ==
    HeadingTree(Call) =>
        TreeOk(Call.out.hierarchy.headings, Len(Call.text), 0, Len(Call.text), 0)

C20_Witness ==
    /\ HeadingTree(Call)
    /\ Len(Call.out.hierarchy.headings) = 1
    /\ Len(Call.out.hierarchy.headings[1].children) = 1
    /\ Len(Call.out.hierarchy.headings[1].children[1].children) = 1


\* ------------------------------------------------------------------------
\* chunkText and chunkWithHierarchy on their own: texts built from
\* paragraphs and the separators between them
\* ------------------------------------------------------------------------

\* the paragraphs: words, two sentences two spaces apart, headings
ChunkParagraphs ==
    { << "a", "a" >>, << "b" >>, << "a", ".", " ", " ", "b", "." >>,
      << "#", " ", "A" >>, << "#", "#", " ", "B" >> }

\* what stands between two paragraphs: one blank line, or two
ChunkSeparators == { << "\n", "\n" >>, << "\n", "\n", "\n" >> }

\* what a text starts with: nothing, or a space
ChunkLeads == { <<>>, << " " >> }

MaxParagraphs == 3

RECURSIVE Interleave(_, _, _)
Interleave(paragraphs, separators, i) ==
    IF i > Len(paragraphs) THEN <<>>
    ELSE (IF i > 1 THEN separators[i - 1] ELSE <<>>) \o paragraphs[i]
         \o Interleave(paragraphs, separators, i + 1)

\* the texts of at most MaxParagraphs paragraphs
ChunkDocSet ==
    UNION {{lead \o Interleave(paragraphs, separators, 1) :
               lead \in ChunkLeads, paragraphs \in [1..n -> ChunkParagraphs],
               separators \in [1..(n - 1) -> ChunkSeparators]} : n \in 1..MaxParagraphs}

ChunkSizes == {4, 8}
ChunkOverlaps == {0, 2}
ChunkOptionSet ==
    {[Options1 EXCEPT !.maxChunkSize = m, !.overlap = o] : m \in ChunkSizes, o \in ChunkOverlaps}

\* a call chunkText(text, options), or chunkWithHierarchy(text, hierarchy,
\* options) on the hierarchy extractHierarchy(text, embedder?, options) gives
ChunkCall(op, text, options, hasEmbedder) ==
    [IdleTask EXCEPT !.pc = op, !.op = op, !.text = text, !.options = options,
                     !.embedder = hasEmbedder]

ChunkInit ==
    /\ lastDocHash = NoHash
    /\ storedHashes = {}
    /\ lastHierarchy = NoHierarchy
    /\ dbTable = FALSE
    /\ rows = <<>>
    /\ tableRef = FALSE
    /\ \E text \in ChunkDocSet, options \in ChunkOptionSet, hasEmbedder \in BOOLEAN :
          \E op \in IF hasEmbedder THEN {"chunkText", "chunkWithHierarchy"}
                    ELSE {"chunkWithHierarchy"} :
              task = [p \in Tasks |-> IF p = Caller
                                      THEN ChunkCall(op, text, options, hasEmbedder)
                                      ELSE IdleTask]
    /\ calls = 1
    /\ failures = 0
    /\ lastDone = NoCall
    /\ clean = TRUE
    /\ pipe = 0
    /\ loading = 0
    /\ loads = <<>>

ChunkTextDone(p) ==
    /\ task[p].pc = "chunkText"
    /\ Continue(p, Result(task[p], chunkText(task[p].text, task[p].options), NoHierarchy))

ChunkedAlong(t, hierarchy) ==
    Result(t, chunkWithHierarchy(t.text, hierarchy, t.options), hierarchy)

ChunkWithHierarchyDone(p) ==
    /\ task[p].pc = "chunkWithHierarchy"
    /\ Continue(p, ChunkedAlong(task[p],
                      extractHierarchy(task[p].text, task[p].embedder,
                                       EmbedBatchVecs(HierarchyEmbedTexts(task[p].text)),
                                       task[p].options)))

NextChunk == ChunkTextDone(Caller) \/ ChunkWithHierarchyDone(Caller)

ChunkSpec == ChunkInit /\ [][NextChunk]_vars


\* ------------------------------------------------------------------------
\* Properties of chunkText and chunkWithHierarchy
\* ------------------------------------------------------------------------

ChunkedText(t) == t.op = "chunkText" /\ t.pc = "idle"
ChunkedHierarchy(t) == t.op = "chunkWithHierarchy" /\ t.pc = "idle"

\* C21: the chunks chunkText returns, in index order, have non-decreasing
\* start offsets.
C21_StartsNonDecreasing ==
    ChunkedText(Call) =>
        \A i \in 1..(Len(Call.out.results) - 1) :
            Call.out.results[i].start <= Call.out.results[i + 1].start

InText(chunks, len) ==
    \A i \in 1..Len(chunks) :
        /\ 0 <= chunks[i].start
        /\ chunks[i].start <= chunks[i].end
        /\ chunks[i].end <= len

\* C22: every chunk chunkText or chunkWithHierarchy returns has
\* 0 <= start <= end <= length of the text, also a chunk whose canonical
\* segment is not found in the text and whose start is clamped to 0.
C22_OffsetsInText ==
    (ChunkedText(Call) \/ ChunkedHierarchy(Call)) =>
        InText(Call.out.results, Len(Call.text))

\* a chunk of a section that starts after offset 0 whose segment was not found
C22_Witness ==
    /\ ChunkedHierarchy(Call)
    /\ Call.options.overlap = 0
    /\ \E i \in 1..Len(Call.out.results) :
          /\ Call.out.results[i].start > 0
          /\ IndexOf(Call.text, Call.out.results[i].text, 0) < 0

\* C23: with overlap 0, the offsets of every chunk chunkText returns address
\* the chunk's text in the source: text.slice(start, end) is the chunk's text.
C23_OffsetsAddressChunk ==
    (ChunkedText(Call) /\ Call.options.overlap = 0) =>
        \A i \in 1..Len(Call.out.results) :
            Slice(Call.text, Call.out.results[i].start, Call.out.results[i].end)
                = Call.out.results[i].text



\* the nodes of a heading tree
RECURSIVE NodeSet(_)
NodeSet(headings) ==
    IF headings = <<>> THEN {}
    ELSE {Head(headings)} \cup NodeSet(Head(headings).children)
         \cup NodeSet(Tail(headings))

Chars(s) == {s[i] : i \in 1..Len(s)}

\* the chunk is cut from the node: its offsets lie within the node's, its
\* title is the node's and its text is made of the node's text and of the
\* separators segments are joined with
CutFrom(chunk, node, text) ==
    /\ node.startOffset <= chunk.start
    /\ chunk.end <= node.endOffset
    /\ chunk.sectionTitle = node.title
    /\ Chars(chunk.text) \subseteq
          Chars(Slice(text, node.startOffset, node.endOffset)) \cup {"\n", " "}

\* C27: every chunk chunkWithHierarchy returns is cut from a leaf of the
\* heading tree: its [start, end] lies within [startOffset, endOffset] of a
\* node without children, its sectionTitle is that node's title, and no chunk
\* is made of text that belongs to no leaf section.
C27_ChunksCutFromLeaves ==
    ChunkedHierarchy(Call) =>
        \A i \in 1..Len(Call.out.results) :
            \E node \in NodeSet(Call.out.hierarchy.headings) :
                /\ Len(node.children) = 0
                /\ CutFrom(Call.out.results[i], node, Call.text)

\* a section with a paragraph of its own before its first subsection: the
\* chunks are those of the subsection
C27_Witness ==
    /\ ChunkedHierarchy(Call)
    /\ Len(Call.out.results) > 0
    /\ \E h \in NodeSet(Call.out.hierarchy.headings) :
          /\ Len(h.children) > 0
          /\ \E k \in (h.startOffset + 1)..h.children[1].startOffset : Call.text[k] = "a"
          /\ \A i \in 1..Len(Call.out.results) :
                Call.out.results[i].sectionTitle = h.children[1].title

\* a line "1.1 N" directly after a line "1. T"
HasNestedLine(lines) ==
    \E i \in 1..(Len(lines) - 1) : lines[i] = NumberedLine /\ lines[i + 1] = NestedLine

\* a level-1 node "T" with a level-2 child "N"
NestsNumbered(headings) ==
    \E i \in 1..Len(headings) :
        /\ headings[i].title = << "T" >>
        /\ headings[i].level = 1
        /\ \E j \in 1..Len(headings[i].children) :
              /\ headings[i].children[j].title = << "N" >>
              /\ headings[i].children[j].level = 2

\* C24: a line "N.M Title" that follows a line "N. Title" becomes a level-2
\* heading nested under the level-1 heading of the line before it.
C24_NestedNumberedHeading ==
    (Extracts(Call) /\ HasNestedLine(Split("nl", Call.text))) =>
        NestsNumbered(Call.out.hierarchy.headings)


\* ------------------------------------------------------------------------
\* Properties of VectorDB and of the stored records
\* ------------------------------------------------------------------------

\* the number of records the insert calls of a log were given
RECURSIVE InsertedCount(_)
InsertedCount(log) ==
    IF log = <<>> THEN 0
    ELSE (IF Head(log).call = "insert" THEN Len(Head(log).records) ELSE 0)
         + InsertedCount(Tail(log))

\* the first call of the run was a syncIfNeeded that returned true: its
\* inserts went into a store without a table
FirstSyncDone(t) ==
    /\ t.op = "sync"
    /\ t.pc = "idle"
    /\ t.res = "true"
    /\ t.pre.prev = NoCall

\* C25: insert stores each record once: after the inserts of the first sync,
\* into a store whose table did not exist, the store holds as many rows as
\* records were inserted.
C25_InsertStoresEachRecordOnce ==
    FirstSyncDone(Call) => Len(rows) = InsertedCount(Call.log)


\* ------------------------------------------------------------------------
\* Embedder: the lazy load of the pipeline under concurrent callers
\* ------------------------------------------------------------------------

ManagerKept ==
    UNCHANGED << lastDocHash, storedHashes, lastHierarchy, dbTable, rows, tableRef >>

\* the texts embed and embedBatch are given: embedBatch([]) returns at once
EmbedInputs(op) == IF op = "embed" THEN {<< Question >>} ELSE {<<>>, << Question >>}

\* getPipeline: "if (this.pipe) return this.pipe" is not taken and
\* "if (!this.loading)" is
StartsLoadUnlatched(pipeNow, loadingNow) == pipeNow = 0
StartsLoad(pipeNow, loadingNow) == pipeNow = 0 /\ loadingNow = 0

\* getPipeline up to its return: the pipeline itself, else the promise of a
\* load, started now when none is under way.  The call then awaits it.
GetPipeline(t, starts) ==
    IF pipe # 0
    THEN [t EXCEPT !.pc = "run", !.out = [results |-> << pipe >>, hierarchy |-> NoHierarchy]]
    ELSE IF starts
    THEN [t EXCEPT !.pc = "awaitLoad", !.cursor = Len(loads) + 1]
    ELSE [t EXCEPT !.pc = "awaitLoad", !.cursor = loading]

\* embed(text) or embedBatch(texts) is called and runs to its first await
EmbedderCalled(p, t, starts) ==
    /\ task[p].pc = "idle"
    /\ calls < MaxCalls
    /\ calls' = calls + 1
    /\ IF t.op = "embedBatch" /\ t.text = <<>>
       THEN /\ task' = [task EXCEPT ![p] = Result(t, <<>>, NoHierarchy)]
            /\ UNCHANGED << loading, loads >>
       ELSE /\ task' = [task EXCEPT ![p] = GetPipeline(t, starts)]
            /\ loads' = IF starts THEN Append(loads, "pending") ELSE loads
            /\ loading' = IF starts THEN Len(loads) + 1 ELSE loading
    /\ ManagerKept
    /\ UNCHANGED << failures, lastDone, clean, pipe >>

EmbedderCall(p) ==
    \E op \in {"embed", "embedBatch"} :
        \E texts \in EmbedInputs(op) :
            EmbedderCalled(p, NewCall(op, "none", NoBody, texts, Options1),
                           StartsLoad(pipe, loading))

\* the load k is over: the then-callback sets this.pipe and clears this.loading
LoadDone ==
    \E k \in 1..Len(loads) :
        /\ loads[k] = "pending"
        /\ loads' = [loads EXCEPT ![k] = "fulfilled"]
        /\ pipe' = k
        /\ loading' = 0
        /\ ManagerKept
        /\ UNCHANGED << task, calls, failures, lastDone, clean >>

\* this.loading when a load has failed: the then-callback does not run
LatchCleared(loadingNow) == 0
LatchKept(loadingNow) == loadingNow

\* the load k fails: its promise is rejected
LoadFails ==
    \E k \in 1..Len(loads) :
        /\ loads[k] = "pending"
        /\ failures < MaxFailures
        /\ failures' = failures + 1
        /\ clean' = FALSE
        /\ loads' = [loads EXCEPT ![k] = "rejected"]
        /\ loading' = LatchKept(loading)
        /\ ManagerKept
        /\ UNCHANGED << task, calls, lastDone, pipe >>

\* "await this.getPipeline()" is over: the extractor is called, or the call throws
Loaded(t, state) ==
    IF state = "fulfilled"
    THEN [t EXCEPT !.pc = "run", !.out = [results |-> << t.cursor >>, hierarchy |-> NoHierarchy]]
    ELSE Returns(t, "error")

Resume(p) ==
    /\ task[p].pc = "awaitLoad"
    /\ loads[task[p].cursor] # "pending"
    /\ Moves(p, Loaded(task[p], loads[task[p].cursor]))
    /\ ManagerKept
    /\ UNCHANGED << calls, failures, clean >>

\* the extractor returned: the vectors are returned
ExtractorDone(p) ==
    /\ task[p].pc = "run"
    /\ Moves(p, Returns(task[p], "ok"))
    /\ ManagerKept
    /\ UNCHANGED << calls, failures, clean >>

\* the extractor threw
ExtractorFails(p) ==
    /\ task[p].pc = "run"
    /\ failures < MaxFailures
    /\ failures' = failures + 1
    /\ clean' = FALSE
    /\ Moves(p, Returns(task[p], "error"))
    /\ ManagerKept
    /\ UNCHANGED calls

NextEmbedder ==
    \/ \E p \in Tasks : EmbedderCall(p)
    \/ LoadDone
    \/ LoadFails
    \/ \E p \in Tasks : Resume(p)
    \/ \E p \in Tasks : ExtractorDone(p)
    \/ \E p \in Tasks : ExtractorFails(p)

EmbedderSpec == Init /\ [][NextEmbedder]_vars


\* ------------------------------------------------------------------------
\* Properties of the Embedder (EmbedderSpec)
\* ------------------------------------------------------------------------

EmbedderCalls(t) == t.op \in {"embed", "embedBatch"}

\* the call reached getPipeline: embedBatch([]) returns before it
UsesPipeline(t) == EmbedderCalls(t) /\ t.text # <<>>

\* the pipeline the call was handed
PipelineOf(t) == t.out.results

\* C26: under any interleaving of concurrent embed and embedBatch calls on an
\* Embedder whose pipeline has not been loaded, the model load is started
\* exactly once and every caller receives the pipeline of that one load.
C26_LoadStartedOnce ==
    /\ Len(loads) <= 1
    /\ \A p \in Tasks :
          UsesPipeline(task[p]) =>
             /\ Len(loads) = 1
             /\ task[p].pc = "awaitLoad" => task[p].cursor = 1
             /\ (task[p].pc = "run" \/ task[p].res = "ok") => PipelineOf(task[p]) = << 1 >>

\* two callers awaited the same load and both were served by it
C26_Witness ==
    /\ \A p \in Tasks :
          /\ UsesPipeline(task[p])
          /\ task[p].pc = "idle"
          /\ task[p].res = "ok"
          /\ task[p].cursor = 1
          /\ PipelineOf(task[p]) = << 1 >>
    /\ \E p \in Tasks : task[p].op = "embed"
    /\ \E p \in Tasks : task[p].op = "embedBatch"

LoadRejected == \E k \in 1..Len(loads) : loads[k] = "rejected"

\* the call was made after a call had failed
Later(t) == EmbedderCalls(t) /\ ~t.pre.clean

\* C30 as stated: once the model load has failed the latch is never cleared,
\* no new load is started and every later embed or embedBatch call fails
\* with the error of that load.
C30_EveryLaterCallFails ==
    LoadRejected =>
       /\ loading = 1
       /\ pipe = 0
       /\ Len(loads) = 1
       /\ \A p \in Tasks :
             (Later(task[p]) /\ task[p].pc = "idle") => task[p].res = "error"

\* C30 amended: once the model load has failed the latch is never cleared,
\* no new load is started, and every later embed call and every later
\* embedBatch call with at least one text awaits the rejected load and fails
\* with its error.
C30_LaterPipelineCallsFail ==
    LoadRejected =>
       /\ loading = 1
       /\ pipe = 0
       /\ Len(loads) = 1
       /\ \A p \in Tasks :
             (Later(task[p]) /\ UsesPipeline(task[p])) =>
                /\ task[p].cursor = 1
                /\ task[p].pc \in {"awaitLoad", "idle"}
                /\ task[p].pc = "idle" => task[p].res = "error"

\* after the load failed an embed and an embedBatch call were made and failed
C30_Witness ==
    /\ LoadRejected
    /\ \A p \in Tasks :
          /\ Later(task[p])
          /\ UsesPipeline(task[p])
          /\ task[p].pc = "idle"
          /\ task[p].res = "error"
    /\ \E p \in Tasks : task[p].op = "embed"
    /\ \E p \in Tasks : task[p].op = "embedBatch"


\* ------------------------------------------------------------------------
\* Properties of the stored records (SeqSpec)
\* ------------------------------------------------------------------------

\* a syncIfNeeded call that returned
SyncReturned(t) == t.op = "sync" /\ t.pc = "idle" /\ t.res \in {"true", "false"}

\* the record carries the index and the offsets of a chunk with its hash
RecordOfChunk(record, chunks) ==
    \E j \in 1..Len(chunks) :
        /\ chunks[j].hash = record.chunkHash
        /\ chunks[j].index = record.chunkIndex
        /\ chunks[j].start = record.start
        /\ chunks[j].end = record.end

\* C28: after every successful syncIfNeeded(text), each record in the vector
\* store carries the chunkIndex, start and end of a chunk of the current text
\* with the same hash, also the records an earlier sync inserted and the
\* append path kept.
C28_RecordsAddressCurrentText ==
    SyncReturned(Call) =>
        \A i \in 1..Len(rows) : RecordOfChunk(rows[i], ChunksOfCall(Call))


\* the call repeats the text of the sync before it under other options
RepeatsUnderOtherOptions(t) == RepeatsSync(t) /\ t.pre.prev.options # t.options

\* C29: the fast path depends on the text alone: after syncIfNeeded(text, o1)
\* has returned, syncIfNeeded(text, o2) with other options returns false,
\* makes no call to the embedder or the store and leaves the bookkeeping and
\* the store as they were; when the first call synced without a failure
\* before it, the store holds the chunks cut under o1.
C29_FastPathIgnoresOptions ==
    RepeatsUnderOtherOptions(Call) =>
        /\ Call.log = <<>>
        /\ Call.pc \in {"hash", "idle"}
        /\ Call.pc = "idle" => Call.res = "false"
        /\ storedHashes = Call.pre.storedHashes
        /\ lastDocHash = Call.pre.lastDocHash
        /\ (Call.pre.clean /\ Call.pre.prev.res = "true") =>
              StoreHashes = HashesOf(SyncChunksOf[Call.text][Call.pre.prev.options])

\* a text whose chunks differ under the two options was synced under one and
\* then under the other
C29_Witness ==
    /\ RepeatsUnderOtherOptions(Call)
    /\ Call.pc = "idle"
    /\ Call.res = "false"
    /\ Call.pre.clean
    /\ Call.pre.prev.res = "true"
    /\ HashesOf(ChunksOfCall(Call)) # HashesOf(SyncChunksOf[Call.text][Call.pre.prev.options])
    /\ StoreHashes = HashesOf(SyncChunksOf[Call.text][Call.pre.prev.options])

====
